---------------------------- MODULE Spec2Model ----------------------------
(***************************************************************************)
(* A model of the knowledge-graph pipeline: the entity normalizer, the     *)
(* extraction orchestrator (plain and checkpointed), the aggregation and   *)
(* clustering engines, the Neo4j loader and the retrieval engine.          *)
(*                                                                         *)
(* Python strings are TLA+ strings; characters are taken with SubSeq.      *)
(* Each component has its own specification (SpecNorm, SpecAgg, ...) over  *)
(* its own group of variables; the other groups stay at their idle value.  *)
(***************************************************************************)
EXTENDS Integers, Sequences, FiniteSets, TLC

VARIABLES
    \* --- entity normalizer (utils/entity_normalizer.py) ---
    nName,          \* the input string of normalize_entity_name
    nOnce,          \* normalize_entity_name(nName), or NoValue
    nTwice,         \* normalize_entity_name(nOnce), or NoValue
    nPatterns,      \* create_search_patterns(nName), or NoValue
    \* --- aggregation engine (build_KG.py, aggregate_knowledge_improved) ---
    entities,             \* the raw entity mentions (argument)
    relations,            \* the raw relation mentions (argument)
    aggregated_entities,  \* the returned entity list, or NoValue
    aggregated_relations, \* the returned relation list, or NoValue
    aggPc,
    \* --- clustering engine (build_KG.py, llm_cluster_knowledge) ---
    batch_size,               \* the batch_size argument
    entities_processed,       \* loop counter of llm_cluster_knowledge
    relations_processed,      \* loop counter of llm_cluster_knowledge
    all_entity_clusters,      \* clusters collected from the batches so far
    all_relation_clusters,
    final_clustered_entities, \* the returned entity clusters, or NoValue
    final_clustered_relations,\* the returned relation clusters, or NoValue
    batchLog,                 \* per batch: its ids and how the model answered
    clusterPc,
    \* --- graph loader (create_KG_in_neo4j.py, Neo4jUploader) ---
    loadEntities,   \* the clustered entities handed to upload_entities
    loadRelations,  \* the clustered relations handed to upload_relations
    graphNodes,     \* the nodes of the graph store
    graphEdges,     \* the edges of the graph store, in creation order
    loadCounts,     \* the size of the graph after each complete load
    storeErrors,    \* the number of store calls that raised
    loadPc,
    \* --- retrieval engine (knowledge_retriever.py, retrieve_knowledge) ---
    analysis,        \* the question analysis handed to retrieve_knowledge
    retrieve_text,   \* the retrieve_text argument
    query_results,   \* the rows of the last query
    primary_results, \* the rows after the primary attempt, or NoValue
    fallbackRuns,    \* how many times the fallback query was run
    storeCalls,      \* the graph-store calls made: which query, and whether it raised
    retrieved,       \* the returned contexts, or NoValue
    retrPc,
    \* --- extraction orchestrator (build_KG.py, KG_checkpoint.py) ---
    chunks,           \* the chunk list (argument)
    answers,          \* what call_llm_api returns for each chunk
    variant,          \* "plain" or "checkpoint": which orchestrator runs
    checkpoint_every, \* the checkpoint_every argument
    checkpoint_file,  \* <<>> when there is no file, else <<checkpoint_data>>
    all_entities,     \* the accumulated raw entities
    all_relations,    \* the accumulated raw relations
    start_index,      \* where the loop of this run started
    chunkIndex,       \* the loop variable i
    visited,          \* the indices the loop of this run has visited
    sent,             \* the indices whose chunk this run sent to the model
    resumedFrom,      \* processed_count of the checkpoint resumed from, or -1
    stoppedOnce,      \* the run was stopped and started again
    checkpointWrites, \* the save_checkpoint calls of this run, in order
    extrPc,
    \* --- model call with retries (build_KG.py, call_llm_api) ---
    max_retries,  \* the max_retries argument
    attempt,      \* the loop variable
    outcomes,     \* what happened at each attempt made
    slept,        \* the seconds of each time.sleep
    llmResult,    \* the returned string, or NoValue
    llmTaken,     \* <<what the orchestrator adds for the chunk>>, <<>> before
    llmPc,
    \* --- extraction parser (build_KG.py, parse_llm_extraction_output) ---
    llm_response, \* the model response handed to the parser
    parseResult,  \* <<the returned pair of lists>>, <<>> before the call
    parsePc,
    \* --- asynchronous extraction (KnowledgeGraphCreation/build_KG_graphrag.py) ---
    chunk_batch,     \* the argument of process_chunk_batch
    max_concurrent,  \* the limit the extractor was built with
    semaphore,       \* the counter of the extractor's semaphore
    semWaiters,      \* the tasks queued on the semaphore, oldest first
    tasks,           \* the chunks a task was created for, in order
    started,         \* how many tasks have run their first step
    taskPc,          \* where each task is
    taskResult,      \* <<what extract_async returned>> per task, <<>> before
    taskRaised,      \* the tasks whose model call raised
    batch_entities,  \* the entities process_chunk_batch returned
    batch_relations, \* the relations process_chunk_batch returned
    asyncPc,
    \* --- reranked retrieval (knowledge_retriever_rawData.py, context_reranker.py) ---
    rrSourceIds,      \* the source chunk ids of the retrieved subgraph
    modelLoaded,      \* ContextReranker.model was loaded
    candidate_chunks, \* the chunks found for the source chunk ids
    predicted,        \* what model.predict did: the scores, or raised
    reranked_chunks,  \* what rerank returned
    final_chunks,     \* the chunks written to the text context
    rerankPc

NoValue == "<none>"

normVars == <<nName, nOnce, nTwice, nPatterns>>
aggVars  == <<entities, relations, aggregated_entities, aggregated_relations, aggPc>>
clusterVars ==
    <<batch_size, entities_processed, relations_processed, all_entity_clusters,
      all_relation_clusters, final_clustered_entities, final_clustered_relations,
      batchLog, clusterPc>>
loadVars ==
    <<loadEntities, loadRelations, graphNodes, graphEdges, loadCounts, storeErrors, loadPc>>
retrVars ==
    <<analysis, retrieve_text, query_results, primary_results, fallbackRuns, storeCalls,
      retrieved, retrPc>>
extrVars ==
    <<chunks, answers, variant, checkpoint_every, checkpoint_file, all_entities,
      all_relations, start_index, chunkIndex, visited, sent, resumedFrom, stoppedOnce,
      checkpointWrites, extrPc>>
llmVars  == <<max_retries, attempt, outcomes, slept, llmResult, llmTaken, llmPc>>
parseVars ==
    <<llm_response, parseResult, parsePc>>
asyncVars ==
    <<chunk_batch, max_concurrent, semaphore, semWaiters, tasks, started, taskPc,
      taskResult, taskRaised, batch_entities, batch_relations, asyncPc>>
rerankVars ==
    <<rrSourceIds, modelLoaded, candidate_chunks, predicted, reranked_chunks, final_chunks,
      rerankPc>>
vars     == <<normVars, aggVars, clusterVars, loadVars, retrVars, extrVars, llmVars, parseVars, asyncVars, rerankVars>>

\* what each component leaves alone
normOthers    == <<aggVars, clusterVars, loadVars, retrVars, extrVars, llmVars, parseVars, asyncVars, rerankVars>>
aggOthers     == <<normVars, clusterVars, loadVars, retrVars, extrVars, llmVars, parseVars, asyncVars, rerankVars>>
clusterOthers == <<normVars, aggVars, loadVars, retrVars, extrVars, llmVars, parseVars, asyncVars, rerankVars>>
loadOthers    == <<normVars, aggVars, clusterVars, retrVars, extrVars, llmVars, parseVars, asyncVars, rerankVars>>
retrOthers    == <<normVars, aggVars, clusterVars, loadVars, extrVars, llmVars, parseVars, asyncVars, rerankVars>>
extrOthers    == <<normVars, aggVars, clusterVars, loadVars, retrVars, llmVars, parseVars, asyncVars, rerankVars>>
llmOthers     == <<normVars, aggVars, clusterVars, loadVars, retrVars, extrVars, parseVars, asyncVars, rerankVars>>
parseOthers == <<normVars, aggVars, clusterVars, loadVars, retrVars, extrVars, llmVars, asyncVars, rerankVars>>
asyncOthers == <<normVars, aggVars, clusterVars, loadVars, retrVars, extrVars, llmVars, parseVars, rerankVars>>
rerankOthers == <<normVars, aggVars, clusterVars, loadVars, retrVars, extrVars, llmVars, parseVars, asyncVars>>

\* the value of a component's variables while another component runs
NormIdle == nName = NoValue /\ nOnce = NoValue /\ nTwice = NoValue /\ nPatterns = NoValue
AggIdle  ==
    /\ entities = <<>> /\ relations = <<>>
    /\ aggregated_entities = NoValue /\ aggregated_relations = NoValue /\ aggPc = "idle"
ClusterIdle ==
    /\ batch_size = 0 /\ entities_processed = 0 /\ relations_processed = 0
    /\ all_entity_clusters = <<>> /\ all_relation_clusters = <<>>
    /\ final_clustered_entities = NoValue /\ final_clustered_relations = NoValue
    /\ batchLog = <<>> /\ clusterPc = "idle"
LoadIdle ==
    /\ loadEntities = <<>> /\ loadRelations = <<>> /\ graphNodes = {} /\ graphEdges = <<>>
    /\ loadCounts = <<>> /\ storeErrors = 0 /\ loadPc = "idle"
RetrIdle ==
    /\ analysis = NoValue /\ retrieve_text = FALSE /\ query_results = {}
    /\ primary_results = NoValue /\ fallbackRuns = 0 /\ storeCalls = <<>>
    /\ retrieved = NoValue /\ retrPc = "idle"
ExtrIdle ==
    /\ chunks = <<>> /\ answers = <<>> /\ variant = "plain" /\ checkpoint_every = 1
    /\ checkpoint_file = <<>> /\ all_entities = <<>> /\ all_relations = <<>>
    /\ start_index = 0 /\ chunkIndex = 0 /\ visited = <<>> /\ sent = <<>>
    /\ resumedFrom = -1 /\ stoppedOnce = FALSE /\ checkpointWrites = <<>>
    /\ extrPc = "idle"
LlmIdle ==
    /\ max_retries = 0 /\ attempt = 0 /\ outcomes = <<>> /\ slept = <<>>
    /\ llmResult = NoValue /\ llmTaken = <<>> /\ llmPc = "idle"
ParseIdle ==
    /\ llm_response = NoValue /\ parseResult = <<>> /\ parsePc = "idle"
AsyncIdle ==
    /\ chunk_batch = <<>> /\ max_concurrent = 0 /\ semaphore = 0 /\ semWaiters = <<>>
    /\ tasks = <<>> /\ started = 0 /\ taskPc = <<>> /\ taskResult = <<>> /\ taskRaised = {}
    /\ batch_entities = <<>> /\ batch_relations = <<>> /\ asyncPc = "idle"
RerankIdle ==
    /\ rrSourceIds = {} /\ modelLoaded = FALSE /\ candidate_chunks = <<>>
    /\ predicted = [called |-> FALSE, raised |-> FALSE, scores |-> <<>>]
    /\ reranked_chunks = <<>> /\ final_chunks = <<>>
    /\ rerankPc = "idle"

-----------------------------------------------------------------------------
(* Python str primitives, on TLA+ strings.                                   *)

Chr(s, i) == SubSeq(s, i, i)

UPPERCASE == "ABCDEFGHIJKLMNOPQRSTUVWXYZ"
LOWERCASE == "abcdefghijklmnopqrstuvwxyz"

\* the lowercase letter of each uppercase letter
LowerTable ==
    [ c \in { Chr(UPPERCASE, i) : i \in 1..Len(UPPERCASE) } |->
        Chr(LOWERCASE, CHOOSE i \in 1..Len(UPPERCASE) : Chr(UPPERCASE, i) = c) ]

\* str.lower() on one character
LowerChar(c) == IF c \in DOMAIN LowerTable THEN LowerTable[c] ELSE c

RECURSIVE Lower(_)
Lower(s) == IF Len(s) = 0 THEN "" ELSE LowerChar(Chr(s, 1)) \o Lower(SubSeq(s, 2, Len(s)))

IsSpace(c) == c = " "

RECURSIVE LStrip(_)
LStrip(s) ==
    IF Len(s) > 0 /\ IsSpace(Chr(s, 1)) THEN LStrip(SubSeq(s, 2, Len(s))) ELSE s

RECURSIVE RStrip(_)
RStrip(s) ==
    IF Len(s) > 0 /\ IsSpace(Chr(s, Len(s))) THEN RStrip(SubSeq(s, 1, Len(s) - 1)) ELSE s

\* str.strip()
Strip(s) == RStrip(LStrip(s))

\* `sub in s` for strings
Contains(s, sub) ==
    \E i \in 1..(Len(s) - Len(sub) + 1) : SubSeq(s, i, i + Len(sub) - 1) = sub

\* str.replace(old, new) for a one-character old
RECURSIVE ReplaceChar(_, _, _)
ReplaceChar(s, old, new) ==
    IF Len(s) = 0 THEN ""
    ELSE (IF Chr(s, 1) = old THEN new ELSE Chr(s, 1))
            \o ReplaceChar(SubSeq(s, 2, Len(s)), old, new)

\* str.split(): the maximal runs of non-whitespace, in order
RECURSIVE SplitFrom(_, _)
SplitFrom(s, cur) ==
    IF Len(s) = 0 THEN (IF cur = "" THEN <<>> ELSE <<cur>>)
    ELSE IF IsSpace(Chr(s, 1))
         THEN (IF cur = "" THEN <<>> ELSE <<cur>>) \o SplitFrom(SubSeq(s, 2, Len(s)), "")
         ELSE SplitFrom(SubSeq(s, 2, Len(s)), cur \o Chr(s, 1))

Split(s) == SplitFrom(s, "")

\* " ".join(words)
RECURSIVE Join(_)
Join(words) ==
    IF Len(words) = 0 THEN ""
    ELSE IF Len(words) = 1 THEN words[1]
    ELSE words[1] \o " " \o Join(Tail(words))

InSeq(x, seq) == \E i \in 1..Len(seq) : seq[i] = x

-----------------------------------------------------------------------------
(* EntityNormalizer                                                          *)

\* The synonym table, in the insertion order the substring scan iterates in.
NORMALIZATION_MAP == <<
    <<"password", "password">>, <<"parola d'accesso", "password">>,
    <<"credenziali", "password">>, <<"pwd", "password">>,
    <<"dgue", "dgue">>, <<"documento unico europeo", "dgue">>,
    <<"documento unico", "dgue">>, <<"d.g.u.e.", "dgue">>,
    <<"empulia", "empulia">>, <<"piattaforma empulia", "empulia">>,
    <<"sistema empulia", "empulia">>, <<"em pulia", "empulia">>,
    <<"albo fornitori", "albo fornitori">>, <<"albo", "albo fornitori">>,
    <<"registro fornitori", "albo fornitori">>, <<"elenco fornitori", "albo fornitori">>,
    <<"iscrizione", "iscrizione">>, <<"registrazione", "iscrizione">>,
    <<"iscrizione albo", "iscrizione">>, <<"registrazione albo", "iscrizione">>,
    <<"fornitore", "fornitore">>, <<"operatore economico", "fornitore">>,
    <<"impresa", "fornitore">>, <<"ditta", "fornitore">>, <<"societ@", "fornitore">>,
    <<"documento", "documento">>, <<"documentazione", "documento">>,
    <<"documentazione richiesta", "documento">>, <<"allegato", "documento">>,
    <<"accesso", "accesso">>, <<"login", "accesso">>, <<"autenticazione", "accesso">>,
    <<"log in", "accesso">>, <<"entrata", "accesso">>,
    <<"procedura", "procedura">>, <<"processo", "procedura">>,
    <<"iter", "procedura">>, <<"prassi", "procedura">>,
    <<"cambiare", "modificare">>, <<"modificare", "modificare">>,
    <<"aggiornare", "modificare">>, <<"sostituire", "modificare">>,
    <<"reimpostare", "modificare">>,
    <<"reset", "reset">>, <<"ripristino", "reset">>,
    <<"azzeramento", "reset">>, <<"reimpostazione", "reset">>
>>

STOP_WORDS == {
    "il", "la", "lo", "gli", "le", "i",
    "un", "una", "uno",
    "del", "della", "dei", "delle", "dello", "degli",
    "di", "da", "in", "con", "per", "su", "tra", "fra",
    "a", "e", "o", "ma", "se", "come", "quando", "dove",
    "che", "chi", "cui", "quanto", "quale", "questo", "quello",
    "mio", "tuo", "suo", "nostro", "vostro", "loro",
    "mia", "tua", "sua", "nostra", "vostra" }

\* Characters a TLA+ string cannot hold are written with stand-ins that occur
\* nowhere else: the grave accent as "%", the en dash as "~", the em dash as "^",
\* the accented a of the key "societa" as "@".
GRAVE  == "%"
ENDASH == "~"
EMDASH == "^"

\* normalized.replace("'", "'"), the grave accent to "'", the en and em dash to "-"
NormalizeSpecialChars(s) ==
    ReplaceChar(ReplaceChar(ReplaceChar(ReplaceChar(s, "'", "'"), GRAVE, "'"),
                            ENDASH, "-"), EMDASH, "-")

\* if normalized in cls.NORMALIZATION_MAP: return cls.NORMALIZATION_MAP[normalized]
DirectLookup(normalized) ==
    IF \E i \in 1..Len(NORMALIZATION_MAP) : NORMALIZATION_MAP[i][1] = normalized
    THEN NORMALIZATION_MAP[CHOOSE i \in 1..Len(NORMALIZATION_MAP) :
                               NORMALIZATION_MAP[i][1] = normalized][2]
    ELSE NoValue

\* for key, value in cls.NORMALIZATION_MAP.items(): if key in normalized: return value
SubstringLookup(normalized) ==
    LET hits == { i \in 1..Len(NORMALIZATION_MAP) : Contains(normalized, NORMALIZATION_MAP[i][1]) }
    IN  IF hits = {} THEN NoValue
        ELSE NORMALIZATION_MAP[CHOOSE i \in hits : \A j \in hits : i <= j][2]

IsSignificantWord(word) == word \notin STOP_WORDS /\ Len(word) > 1

\* words = normalized.split(); filtered_words = [...]; " ".join(filtered_words) or normalized
StripStopWords(normalized) ==
    LET filtered_words == SelectSeq(Split(normalized), IsSignificantWord)
    IN  IF Len(filtered_words) > 0 THEN Join(filtered_words) ELSE normalized

normalize_entity_name(name) ==
    IF Strip(name) = "" THEN ""
    ELSE LET normalized == NormalizeSpecialChars(Lower(Strip(name)))
         IN  IF DirectLookup(normalized) # NoValue THEN DirectLookup(normalized)
             ELSE IF SubstringLookup(normalized) # NoValue THEN SubstringLookup(normalized)
             ELSE StripStopWords(normalized)

\* append x unless already in the list (`if x not in patterns: patterns.append(x)`)
AppendNew(patterns, x) == IF InSeq(x, patterns) THEN patterns ELSE Append(patterns, x)

RECURSIVE AppendAllNew(_, _)
AppendAllNew(patterns, xs) ==
    IF Len(xs) = 0 THEN patterns
    ELSE AppendAllNew(AppendNew(patterns, xs[1]), Tail(xs))

MapKeys == [i \in 1..Len(NORMALIZATION_MAP) |-> NORMALIZATION_MAP[i][1]]

create_search_patterns(entity_name) ==
    LET normalized == normalize_entity_name(entity_name)
        p1 == IF entity_name # "" THEN <<Lower(entity_name)>> ELSE <<>>
        p2 == IF normalized # "" THEN AppendNew(p1, normalized) ELSE p1
        MapsToNormalized(key) == DirectLookup(key) = normalized
        p3 == AppendAllNew(p2, SelectSeq(MapKeys, MapsToNormalized))
        LongWord(word) == Len(word) > 2
        words == IF normalized # "" THEN Split(normalized) ELSE <<>>
    IN  AppendAllNew(p3, SelectSeq(words, LongWord))

-----------------------------------------------------------------------------
(* Aggregation engine: aggregate_knowledge_improved                          *)

\* Python's None in a string-valued field; an optional integer (a page number)
\* is <<>> for None and <<n>> for n.
None == "<None>"
NoPage == <<>>

\* `if x` for a string-or-None value
Truthy(x) == x # None /\ x # ""

\* `if d and d.strip()`
NonBlank(d) == Truthy(d) /\ Strip(d) # ""

\* number of occurrences of x in a list
RECURSIVE CountIn(_, _)
CountIn(seq, x) ==
    IF Len(seq) = 0 THEN 0
    ELSE (IF seq[1] = x THEN 1 ELSE 0) + CountIn(Tail(seq), x)

\* a most frequent element, but the LAST seen on a tie
MostCommonLastSeen(seq) ==
    LET best == CHOOSE i \in 1..Len(seq) :
                   /\ \A j \in 1..Len(seq) : CountIn(seq, seq[j]) <= CountIn(seq, seq[i])
                   /\ \A j \in 1..Len(seq) :
                        CountIn(seq, seq[j]) = CountIn(seq, seq[i]) => j <= i
    IN  seq[best]

\* Counter(seq).most_common(1)[0][0]: the most frequent element, the first
\* inserted one on a tie
MostCommon(seq) ==
    LET best == CHOOSE i \in 1..Len(seq) :
                   /\ \A j \in 1..Len(seq) : CountIn(seq, seq[j]) <= CountIn(seq, seq[i])
                   /\ \A j \in 1..Len(seq) :
                        CountIn(seq, seq[j]) = CountIn(seq, seq[i]) => i <= j
    IN  seq[best]

\* set(list): a sorted duplicate-free list is modelled by the set of its elements
Range(seq) == { seq[i] : i \in 1..Len(seq) }

BucketIndex(buckets, key) ==
    IF \E i \in 1..Len(buckets) : buckets[i].key = key
    THEN CHOOSE i \in 1..Len(buckets) : buckets[i].key = key
    ELSE 0

\* the key of a mention: name = entity["nome_entita"].strip(); norm_name = name.lower()
\* variant: the key is the shared normalizer's output
EntityKeyByNormalizer(entity) == normalize_entity_name(entity.nome_entita)

EntityKey(entity) == Lower(Strip(entity.nome_entita))

\* variant: a mention with an empty name or type is not skipped
IsSkippedNever(entity) == FALSE

\* `if not name or not etype: continue`
IsSkipped(entity) == Strip(entity.nome_entita) = "" \/ entity.tipo_entita = ""

\* the value lists a mention contributes; the first mention of a bucket keeps its
\* description as written, a later one stripped
DescrList(d, first) == IF NonBlank(d) THEN <<IF first THEN d ELSE Strip(d)>> ELSE <<>>
TruthyList(x) == IF Truthy(x) THEN <<x>> ELSE <<>>
PageList(pg) == IF pg # NoPage THEN <<pg[1]>> ELSE <<>>

\* variant: a repeated mention does not raise the occurrence count
BumpCountNot(n) == n

BumpCount(n) == n + 1

\* one iteration of `for entity in entities`
AggregateEntity(buckets, entity) ==
    IF IsSkipped(entity) THEN buckets
    ELSE LET name == Strip(entity.nome_entita)
             key  == EntityKey(entity)
             i    == BucketIndex(buckets, key)
         IN  IF i = 0
             THEN Append(buckets,
                    [ key |-> key,
                      nomi_originali |-> <<name>>,
                      tipi_rilevati |-> <<entity.tipo_entita>>,
                      descrizioni |-> DescrList(entity.descrizione_entita, TRUE),
                      fonti_chunk_id |-> TruthyList(entity.source_chunk_id),
                      fonti_pagina |-> PageList(entity.source_page_number),
                      fonti_sezione |-> TruthyList(entity.source_section_title),
                      conteggio_occorrenze |-> 1 ])
             ELSE [buckets EXCEPT ![i] =
                    [ key |-> key,
                      nomi_originali |-> Append(@.nomi_originali, name),
                      tipi_rilevati |-> Append(@.tipi_rilevati, entity.tipo_entita),
                      descrizioni |-> @.descrizioni \o DescrList(entity.descrizione_entita, FALSE),
                      fonti_chunk_id |-> @.fonti_chunk_id \o TruthyList(entity.source_chunk_id),
                      fonti_pagina |-> @.fonti_pagina \o PageList(entity.source_page_number),
                      fonti_sezione |-> @.fonti_sezione \o TruthyList(entity.source_section_title),
                      conteggio_occorrenze |-> BumpCount(@.conteggio_occorrenze) ]]

RECURSIVE AggregateEntities(_, _)
AggregateEntities(buckets, ents) ==
    IF Len(ents) = 0 THEN buckets
    ELSE AggregateEntities(AggregateEntity(buckets, ents[1]), Tail(ents))

\* `for norm_name, data in unique_entities_dict.items()`: one final record per bucket
FinalEntity(data) ==
    [ nome_entita_canonico_provvisorio |-> MostCommon(data.nomi_originali),
      nome_entita_norm |-> data.key,
      tipo_entita_canonico_provvisorio |-> MostCommon(data.tipi_rilevati),
      tutti_nomi_originali |-> Range(data.nomi_originali),
      tutti_tipi_rilevati |-> Range(data.tipi_rilevati),
      descrizioni_aggregate |-> Range(data.descrizioni),
      fonti_chunk_id |-> Range(data.fonti_chunk_id),
      fonti_pagina |-> Range(data.fonti_pagina),
      fonti_sezione |-> Range(data.fonti_sezione),
      conteggio_occorrenze |-> data.conteggio_occorrenze ]

AggregatedEntitiesOf(ents) ==
    LET buckets == AggregateEntities(<<>>, ents)
    IN  [i \in 1..Len(buckets) |-> FinalEntity(buckets[i])]

\* key = (s.lower(), p.lower(), o.lower()) of the stripped fields
RelationKey(relation) ==
    << Lower(Strip(relation.soggetto)), Lower(Strip(relation.predicato)),
       Lower(Strip(relation.oggetto)) >>

\* `if not s or not p or not o: continue`
IsSkippedRelation(relation) ==
    Strip(relation.soggetto) = "" \/ Strip(relation.predicato) = "" \/ Strip(relation.oggetto) = ""

\* one iteration of `for relation in relations`
AggregateRelation(buckets, relation) ==
    IF IsSkippedRelation(relation) THEN buckets
    ELSE LET key == RelationKey(relation)
             i   == BucketIndex(buckets, key)
         IN  IF i = 0
             THEN Append(buckets,
                    [ key |-> key,
                      contesti |-> DescrList(relation.contesto_relazione, TRUE),
                      fonti_chunk_id |-> TruthyList(relation.source_chunk_id),
                      fonti_pagina |-> PageList(relation.source_page_number),
                      fonti_sezione |-> TruthyList(relation.source_section_title),
                      conteggio_occorrenze |-> 1 ])
             ELSE [buckets EXCEPT ![i] =
                    [ key |-> key,
                      contesti |-> @.contesti \o DescrList(relation.contesto_relazione, FALSE),
                      fonti_chunk_id |-> @.fonti_chunk_id \o TruthyList(relation.source_chunk_id),
                      fonti_pagina |-> @.fonti_pagina \o PageList(relation.source_page_number),
                      fonti_sezione |-> @.fonti_sezione \o TruthyList(relation.source_section_title),
                      conteggio_occorrenze |-> @.conteggio_occorrenze + 1 ]]

RECURSIVE AggregateRelations(_, _)
AggregateRelations(buckets, rels) ==
    IF Len(rels) = 0 THEN buckets
    ELSE AggregateRelations(AggregateRelation(buckets, rels[1]), Tail(rels))

\* `for data in unique_relations_dict.values()`
FinalRelation(data) ==
    [ soggetto_norm |-> data.key[1],
      predicato_norm |-> data.key[2],
      oggetto_norm |-> data.key[3],
      contesti |-> Range(data.contesti),
      fonti_chunk_id |-> Range(data.fonti_chunk_id),
      fonti_pagina |-> Range(data.fonti_pagina),
      fonti_sezione |-> Range(data.fonti_sezione),
      conteggio_occorrenze |-> data.conteggio_occorrenze ]

AggregatedRelationsOf(rels) ==
    LET buckets == AggregateRelations(<<>>, rels)
    IN  [i \in 1..Len(buckets) |-> FinalRelation(buckets[i])]

-----------------------------------------------------------------------------
(* Clustering engine: llm_cluster_knowledge and its helpers.                 *)
(* Ids are Python's 0-based list positions: the entity of id i is            *)
(* original_entities[i + 1] here.  The accented letters of the predicate     *)
(* vocabulary are written "&" (e grave), "$" (o grave) and "@" (a grave).    *)

RELATION_TYPES == {
    "haPassoSuccessivo", "precede", "richiedeInput", "haCampo", "&EseguitaDa",
    "pu$Eseguire", "haSottoFunzionalit@", "includeOperazione", "generaDocumento",
    "richiedeDocumento", "haPrerequisito", "&VincolatoDa", "haStato",
    "pu$AvereStato", "interagisceCon", "inviaDatiA", "haTermine", "scadeIl",
    "mostraMessaggio", "produceNotifica", "&DescrittoIn", "provieneDa",
    "utilizzaFormula", "haCriterioDiValutazione", "siApplicaA", "riguarda",
    "&ParteDi", "contieneElemento", "rimandaA" }

\* the `mappings` dict of find_closest_predicate, in insertion order
PredicateMappings == <<
    <<"esegue", "pu$Eseguire">>, <<"eseguita", "&EseguitaDa">>,
    <<"parte", "&ParteDi">>, <<"contiene", "contieneElemento">>,
    <<"richiede", "richiedeInput">>, <<"genera", "generaDocumento">>,
    <<"interagisce", "interagisceCon">>, <<"descritto", "&DescrittoIn">> >>

find_closest_predicate(invalid_predicate) ==
    LET invalid_lower == Lower(invalid_predicate)
        hits == { i \in 1..Len(PredicateMappings) :
                    Contains(invalid_lower, PredicateMappings[i][1]) }
    IN  IF hits = {} THEN "riguarda"
        ELSE PredicateMappings[CHOOSE i \in hits : \A j \in hits : i <= j][2]

\* the fields of the prompt records the later steps read (the others only feed
\* the prompt text); aggregate_knowledge_improved always produces the
\* "nome_entita_canonico_provvisorio" structure
prepare_entities_for_clustering(ents) ==
    [ i \in 1..Len(ents) |->
        [ id |-> i - 1,
          nome_principale |-> ents[i].nome_entita_canonico_provvisorio,
          tipo_principale |-> ents[i].tipo_entita_canonico_provvisorio ] ]

prepare_relations_for_clustering(rels) ==
    [ i \in 1..Len(rels) |->
        [ id |-> i - 1,
          soggetto |-> rels[i].soggetto_norm,
          predicato |-> rels[i].predicato_norm,
          oggetto |-> rels[i].oggetto_norm ] ]

\* Python's seq[start : start + size]
Slice(seq, start, size) ==
    SubSeq(seq, start + 1, IF start + size < Len(seq) THEN start + size ELSE Len(seq))

\* the singleton clusters process_combined_batch falls back to
FallbackEntityClusters(entity_batch, motivazione) ==
    [ i \in 1..Len(entity_batch) |->
        [ membri_ids |-> <<entity_batch[i].id>>,
          nome_cluster |-> entity_batch[i].nome_principale,
          tipo_cluster |-> entity_batch[i].tipo_principale,
          motivazione |-> motivazione ] ]

FallbackRelationClusters(relation_batch, motivazione) ==
    [ i \in 1..Len(relation_batch) |->
        [ membri_ids |-> <<relation_batch[i].id>>,
          soggetto_cluster |-> relation_batch[i].soggetto,
          predicato_cluster |-> relation_batch[i].predicato,
          oggetto_cluster |-> relation_batch[i].oggetto,
          motivazione |-> motivazione ] ]

\* `if isinstance(cluster["membri_ids"], list) and cluster["membri_ids"]`
HasMembers(cluster) == Len(cluster.membri_ids) > 0

\* a relation cluster as the parser keeps it: an out-of-vocabulary predicate is
\* replaced by find_closest_predicate
ValidatedPredicate(cluster) ==
    [cluster EXCEPT !.predicato_cluster =
        IF @ \in RELATION_TYPES THEN @ ELSE find_closest_predicate(@)]

\* A model answer is a record: kind "empty" (no text), "garbage" (text that
\* json.loads rejects) or "json" (text that json.loads accepts, whose
\* "entita_clusters" and "relazioni_clusters" are the two lists of the record).
\* The parser keeps the clusters that have a non-empty member list and does
\* not compare an id with the batch or with the input length.
parse_combined_clustering_output(llm_output) ==
    IF llm_output.kind # "json"
    THEN [raised |-> TRUE, entity_clusters |-> <<>>, relation_clusters |-> <<>>]
    ELSE [ raised |-> FALSE,
           entity_clusters |-> SelectSeq(llm_output.entita_clusters, HasMembers),
           relation_clusters |->
              LET kept == SelectSeq(llm_output.relazioni_clusters, HasMembers)
              IN  [i \in 1..Len(kept) |-> ValidatedPredicate(kept[i])] ]

process_combined_batch(entity_batch, relation_batch, llm_output) ==
    IF llm_output.kind = "empty"
    THEN [ entity_clusters |->
              FallbackEntityClusters(entity_batch, "Fallback: nessun clustering LLM"),
           relation_clusters |->
              FallbackRelationClusters(relation_batch, "Fallback: nessun clustering LLM") ]
    ELSE LET parsed == parse_combined_clustering_output(llm_output)
         IN  IF parsed.raised
             THEN [ entity_clusters |->
                       FallbackEntityClusters(entity_batch, "Fallback: errore parsing"),
                    relation_clusters |->
                       FallbackRelationClusters(relation_batch, "Fallback: errore parsing") ]
             ELSE [ entity_clusters |-> parsed.entity_clusters,
                    relation_clusters |-> parsed.relation_clusters ]

\* `if entity_id < len(original_entities)`: the member ids that are read
InRangeIds(membri_ids, originals) ==
    LET InRange(id) == id < Len(originals)
    IN  SelectSeq(membri_ids, InRange)

\* all_xxx.extend(entity[field]) over the members, as a set
CollectField(ids, originals, field) ==
    UNION { originals[ids[k] + 1][field] : k \in 1..Len(ids) }

\* total_occurrences += entity["conteggio_occorrenze"], once per listed id
RECURSIVE TotalOccurrences(_, _)
TotalOccurrences(ids, originals) ==
    IF Len(ids) = 0 THEN 0
    ELSE originals[Head(ids) + 1].conteggio_occorrenze + TotalOccurrences(Tail(ids), originals)

\* filter(None, xs) on strings and on page numbers
FilterNoneStr(S) == { x \in S : x # "" }
FilterNonePage(S) == { x \in S : x # 0 }

combine_cluster_data(cluster, original_entities) ==
    LET membri_ids == cluster.membri_ids
        ids == InRangeIds(membri_ids, original_entities)
    IN  [ nome_entita_cluster |-> cluster.nome_cluster,
          tipo_entita_cluster |-> cluster.tipo_cluster,
          membri_cluster |->
             FilterNoneStr(CollectField(ids, original_entities, "tutti_nomi_originali")),
          tipi_membri_cluster |->
             FilterNoneStr(CollectField(ids, original_entities, "tutti_tipi_rilevati")),
          descrizioni_aggregate |->
             FilterNoneStr(CollectField(ids, original_entities, "descrizioni_aggregate")),
          fonti_aggregate_chunk_id |->
             FilterNoneStr(CollectField(ids, original_entities, "fonti_chunk_id")),
          fonti_aggregate_pagina |->
             FilterNonePage(CollectField(ids, original_entities, "fonti_pagina")),
          fonti_aggregate_sezione |->
             FilterNoneStr(CollectField(ids, original_entities, "fonti_sezione")),
          conteggio_occorrenze_totale |-> TotalOccurrences(ids, original_entities),
          motivazione_clustering |-> cluster.motivazione,
          membri_ids_originali |-> membri_ids ]

create_single_entity_cluster(entity, entity_id) ==
    [ nome_entita_cluster |-> entity.nome_entita_canonico_provvisorio,
      tipo_entita_cluster |-> entity.tipo_entita_canonico_provvisorio,
      membri_cluster |-> entity.tutti_nomi_originali,
      tipi_membri_cluster |-> entity.tutti_tipi_rilevati,
      descrizioni_aggregate |-> entity.descrizioni_aggregate,
      fonti_aggregate_chunk_id |-> entity.fonti_chunk_id,
      fonti_aggregate_pagina |-> entity.fonti_pagina,
      fonti_aggregate_sezione |-> entity.fonti_sezione,
      conteggio_occorrenze_totale |-> entity.conteggio_occorrenze,
      motivazione_clustering |-> "Entita singola, nessun raggruppamento necessario",
      membri_ids_originali |-> <<entity_id>> ]

\* variant: no proposed cluster is skipped
ClaimsProcessedNever(cluster, processed_ids) == FALSE

\* `if any(eid in processed_ids for eid in cluster["membri_ids"]): continue`
ClaimsProcessed(cluster, processed_ids) ==
    \E k \in 1..Len(cluster.membri_ids) : cluster.membri_ids[k] \in processed_ids

\* the first loop of finalize_entity_clusters and of finalize_relation_clusters:
\* the clusters kept, in order, and
\* the ids they claim (first writer wins)
RECURSIVE KeptClusters(_, _, _)
KeptClusters(clusters, processed_ids, kept) ==
    IF Len(clusters) = 0 THEN [kept |-> kept, processed_ids |-> processed_ids]
    ELSE IF ClaimsProcessed(Head(clusters), processed_ids)
         THEN KeptClusters(Tail(clusters), processed_ids, kept)
         ELSE KeptClusters(Tail(clusters),
                                 processed_ids \cup Range(Head(clusters).membri_ids),
                                 Append(kept, Head(clusters)))

\* the positions 0..n-1 that no kept cluster claimed, in order
RECURSIVE UnclaimedIds(_, _, _)
UnclaimedIds(i, n, processed_ids) ==
    IF i >= n THEN <<>>
    ELSE (IF i \in processed_ids THEN <<>> ELSE <<i>>) \o UnclaimedIds(i + 1, n, processed_ids)

finalize_entity_clusters(all_clusters, original_entities) ==
    LET first == KeptClusters(all_clusters, {}, <<>>)
        rest  == UnclaimedIds(0, Len(original_entities), first.processed_ids)
    IN  [i \in 1..Len(first.kept) |-> combine_cluster_data(first.kept[i], original_entities)]
        \o [i \in 1..Len(rest) |->
              create_single_entity_cluster(original_entities[rest[i] + 1], rest[i])]

\* variant: no name is ever found in the table
EntityMapGetNothing(final_entities, key, default) == default

\* entity_map.get(key, default): entity_map[member_name.lower()] is written for
\* every member of every final entity cluster in order, a later write replacing
\* an earlier one
EntityMapGet(final_entities, key, default) ==
    LET owners == { i \in 1..Len(final_entities) :
                      \E m \in final_entities[i].membri_cluster : Lower(m) = key }
    IN  IF owners = {} THEN default
        ELSE final_entities[CHOOSE i \in owners : \A j \in owners : j <= i].nome_entita_cluster

combine_relations_cluster_data(cluster, original_relations) ==
    LET membri_ids == cluster.membri_ids
        ids == InRangeIds(membri_ids, original_relations)
    IN  [ soggetto_cluster |-> cluster.soggetto_cluster,
          predicato_cluster |-> cluster.predicato_cluster,
          oggetto_cluster |-> cluster.oggetto_cluster,
          contesti_aggregati |->
             FilterNoneStr(CollectField(ids, original_relations, "contesti")),
          fonti_aggregate_chunk_id |->
             FilterNoneStr(CollectField(ids, original_relations, "fonti_chunk_id")),
          fonti_aggregate_pagina |->
             FilterNonePage(CollectField(ids, original_relations, "fonti_pagina")),
          fonti_aggregate_sezione |->
             FilterNoneStr(CollectField(ids, original_relations, "fonti_sezione")),
          predicati_originali_cluster |->
             FilterNoneStr({ original_relations[ids[k] + 1].predicato_norm : k \in 1..Len(ids) }),
          conteggio_occorrenze_totale |-> TotalOccurrences(ids, original_relations),
          motivazione_clustering |-> cluster.motivazione,
          membri_ids_originali |-> membri_ids ]

create_single_relation_cluster(relation, relation_id, s_mapped, o_mapped) ==
    [ soggetto_cluster |-> s_mapped,
      predicato_cluster |-> relation.predicato_norm,
      oggetto_cluster |-> o_mapped,
      contesti_aggregati |-> relation.contesti,
      fonti_aggregate_chunk_id |-> relation.fonti_chunk_id,
      fonti_aggregate_pagina |-> relation.fonti_pagina,
      fonti_aggregate_sezione |-> relation.fonti_sezione,
      predicati_originali_cluster |-> {relation.predicato_norm},
      conteggio_occorrenze_totale |-> relation.conteggio_occorrenze,
      motivazione_clustering |-> "Relazione singola, nessun raggruppamento necessario",
      membri_ids_originali |-> <<relation_id>> ]

\* a kept relation cluster: its data combined, then subject and object mapped
MappedRelationCluster(cluster, original_relations, final_entities) ==
    [combine_relations_cluster_data(cluster, original_relations) EXCEPT
        !.soggetto_cluster =
            EntityMapGet(final_entities, Lower(cluster.soggetto_cluster), cluster.soggetto_cluster),
        !.oggetto_cluster =
            EntityMapGet(final_entities, Lower(cluster.oggetto_cluster), cluster.oggetto_cluster)]

finalize_relation_clusters(all_clusters, original_relations, final_entities) ==
    LET first == KeptClusters(all_clusters, {}, <<>>)
        rest  == UnclaimedIds(0, Len(original_relations), first.processed_ids)
    IN  [i \in 1..Len(first.kept) |->
            MappedRelationCluster(first.kept[i], original_relations, final_entities)]
        \o [i \in 1..Len(rest) |->
              LET relation == original_relations[rest[i] + 1]
              IN  create_single_relation_cluster(relation, rest[i],
                      EntityMapGet(final_entities, relation.soggetto_norm, relation.soggetto_norm),
                      EntityMapGet(final_entities, relation.oggetto_norm, relation.oggetto_norm))]

-----------------------------------------------------------------------------
(* Graph loader: Neo4jUploader.upload_entities and upload_relations.         *)
(* The graph is a set of nodes, at most one per name (MERGE on name), and a  *)
(* list of edges, one entry per CREATE.  A store call that raises is caught  *)
(* by the uploader and leaves the graph as it was.                           *)

\* `[e for e in entities if e.get("nome_entita_cluster", "").strip()]`
ValidEntities(ents) ==
    LET HasName(e) == Strip(e.nome_entita_cluster) # ""
    IN  SelectSeq(ents, HasName)

\* variant: ON MATCH sets nothing, a node that is there keeps its values
MergeNodeOnCreateOnly(nodes, entity) ==
    IF \E n \in nodes : n.name = entity.nome_entita_cluster THEN nodes
    ELSE nodes \cup { [ name |-> entity.nome_entita_cluster,
                        type |-> entity.tipo_entita_cluster,
                        descriptions |-> entity.descrizioni_aggregate,
                        occurrence_count |-> entity.conteggio_occorrenze_totale,
                        original_members |-> entity.membri_cluster,
                        source_chunk_ids |-> entity.fonti_aggregate_chunk_id ] }

\* MERGE (n:Entity {name: ...}) ON CREATE SET ... ON MATCH SET ...: the node of
\* that name gets the record's values, whether it is new or not
MergeNode(nodes, entity) ==
    { n \in nodes : n.name # entity.nome_entita_cluster }
    \cup { [ name |-> entity.nome_entita_cluster,
             type |-> entity.tipo_entita_cluster,
             descriptions |-> entity.descrizioni_aggregate,
             occurrence_count |-> entity.conteggio_occorrenze_totale,
             original_members |-> entity.membri_cluster,
             source_chunk_ids |-> entity.fonti_aggregate_chunk_id ] }

\* UNWIND $entities AS entity MERGE ...
RECURSIVE MergeNodes(_, _)
MergeNodes(nodes, batch) ==
    IF Len(batch) = 0 THEN nodes
    ELSE MergeNodes(MergeNode(nodes, Head(batch)), Tail(batch))

\* the relations upload_relations keeps: subject, predicate and object non-blank
ValidRelations(rels) ==
    LET Complete(r) ==
            /\ Strip(r.soggetto_cluster) # ""
            /\ Strip(r.predicato_cluster) # ""
            /\ Strip(r.oggetto_cluster) # ""
    IN  SelectSeq(rels, Complete)

\* variant: the edge is created whether or not the end nodes are there
CreateEdgeUnmatched(nodes, edges, rel) ==
    Append(edges, [ s |-> rel.soggetto_cluster,
                    o |-> rel.oggetto_cluster,
                    type |-> rel.predicato_cluster,
                    contexts |-> rel.contesti_aggregati,
                    occurrence_count |-> rel.conteggio_occorrenze_totale,
                    original_predicates |-> rel.predicati_originali_cluster,
                    source_chunk_ids |-> {} ])

\* MATCH (s), MATCH (o), CREATE (s)-[r:RELATED]->(o): one new edge when both end
\* nodes exist, none otherwise; r.source_chunk_ids reads the key "fonti_chunk_id",
\* which a relation cluster does not have
CreateEdge(nodes, edges, rel) ==
    IF /\ \E n \in nodes : n.name = rel.soggetto_cluster
       /\ \E n \in nodes : n.name = rel.oggetto_cluster
    THEN Append(edges, [ s |-> rel.soggetto_cluster,
                         o |-> rel.oggetto_cluster,
                         type |-> rel.predicato_cluster,
                         contexts |-> rel.contesti_aggregati,
                         occurrence_count |-> rel.conteggio_occorrenze_totale,
                         original_predicates |-> rel.predicati_originali_cluster,
                         source_chunk_ids |-> {} ])
    ELSE edges

RECURSIVE CreateEdges(_, _, _)
CreateEdges(nodes, edges, batch) ==
    IF Len(batch) = 0 THEN edges
    ELSE CreateEdges(nodes, CreateEdge(nodes, edges, Head(batch)), Tail(batch))

-----------------------------------------------------------------------------
(* Retrieval engine: KnowledgeRetriever.retrieve_knowledge over the graph    *)
(* the loader wrote (graphNodes, graphEdges).  A query result is the set of  *)
(* its rows; a row is [n, p] with p = <<>> when the OPTIONAL MATCH found no  *)
(* path.  A context text is kept as its header line and the set of lines     *)
(* under it; the empty string is EmptyText.                                  *)

\* EntityNormalizer.normalize_entity_list: the entities whose normalized name
\* is not empty
normalize_entity_list(entita) ==
    LET Named(e) == normalize_entity_name(IF e.nome = None THEN "" ELSE e.nome) # ""
    IN  SelectSeq(entita, Named)

\* list(dict.fromkeys(xs))
RECURSIVE Unique(_, _)
Unique(seen, xs) ==
    IF Len(xs) = 0 THEN seen ELSE Unique(AppendNew(seen, Head(xs)), Tail(xs))

RECURSIVE AllPatterns(_)
AllPatterns(normalized_entities) ==
    IF Len(normalized_entities) = 0 THEN <<>>
    ELSE create_search_patterns(Head(normalized_entities).nome)
            \o AllPatterns(Tail(normalized_entities))

\* _generate_cypher_from_analysis: the patterns of the WHERE clause
\* (n.name = pattern OR n.name CONTAINS pattern, for each); <<>> stands for the
\* empty query string.  Every edge the loader creates has type RELATED, which
\* holds none of the procedure keywords, so both intents build the same query.
generate_cypher_from_analysis(an) ==
    IF an.intento = None \/ Len(an.entita_chiave) = 0 THEN <<>>
    ELSE Unique(<<>>, AllPatterns(normalize_entity_list(an.entita_chiave)))

\* _get_available_relationships: the relationship types of the graph; the
\* loader creates every edge with the type RELATED
get_available_relationships(edges) == IF Len(edges) > 0 THEN {"RELATED"} ELSE {}

ProcedureKeywords ==
    {"passo", "azione", "procedura", "richiede", "applica", "campo", "vincola", "parte",
     "descritto"}

\* proc_rels: the available types that hold a procedure keyword
proc_rels(available_rels) ==
    { r \in available_rels : \E x \in ProcedureKeywords : Contains(Lower(r), x) }

\* the MATCH part of the query _generate_cypher_from_analysis builds: paths
\* over the procedural types up to depth 2 for find_procedure when there is
\* such a type, the neighbours of the matched nodes in every other case
QueryShape(intento, available_rels) ==
    IF intento = "find_procedure" /\ proc_rels(available_rels) # {}
    THEN "procedural_paths_to_depth_2"
    ELSE "neighborhood"

\* MATCH (n) WHERE <test on n.name> OPTIONAL MATCH p=(n)-[r]-(neighbor) RETURN n, p
\* (LIMIT 20 is never reached by the graphs checked here)
MatchRows(nodes, edges, patterns) ==
    LET hit == { n \in nodes : \E i \in 1..Len(patterns) : Contains(n.name, patterns[i]) }
        PathsOf(n) ==
            { <<n, "RELATED", m>> : m \in { x \in nodes :
                \E i \in 1..Len(edges) :
                    \/ edges[i].s = n.name /\ edges[i].o = x.name
                    \/ edges[i].o = n.name /\ edges[i].s = x.name } }
    IN  UNION { IF PathsOf(n) = {} THEN { [n |-> n, p |-> <<>>] }
                ELSE { [n |-> n, p |-> path] : path \in PathsOf(n) } : n \in hit }

\* the token of the fallback query: the first word of the first key entity's
\* lowercased name, or the whole name when it has no word
FallbackToken(an) ==
    LET entity_name == Lower(an.entita_chiave[1].nome)
    IN  IF Len(Split(entity_name)) > 0 THEN Split(entity_name)[1] ELSE entity_name

\* _run_cypher_query: the rows of the query, or no rows when the driver is
\* missing or the store call raises
run_cypher_query(nodes, edges, patterns, ok) ==
    IF ok THEN MatchRows(nodes, edges, patterns) ELSE {}

\* variant: the fallback query is never tried
NoFallback(an, results) == FALSE

\* `if not query_results and analysis.get("entita_chiave")`
NeedsFallback(an, results) == results = {} /\ Len(an.entita_chiave) > 0

EmptyText == [header |-> "", lines |-> {}]

\* _format_context_from_results: the graph context and the source chunk ids
format_context_from_results(records) ==
    IF records = {}
    THEN [ context |-> [header |-> "Nessuna informazione trovata nel Knowledge Graph.",
                        lines |-> {}],
           source_chunk_ids |-> {} ]
    ELSE LET paths == { r.p : r \in { x \in records : x.p # <<>> } }
         IN  [ context |->
                 [ header |-> "Informazioni rilevanti trovate nel Knowledge Graph:",
                   lines |-> { <<"Entita trovata", r.n.name, r.n.type>> : r \in records }
                             \cup { <<"Relazione", p[1].name, p[2], p[3].name>> : p \in paths } ],
               source_chunk_ids |->
                 UNION ({ r.n.source_chunk_ids : r \in records }
                        \cup { p[3].source_chunk_ids : p \in paths }) ]

\* the chunk ids the chunk store holds (_get_chunk_by_id returns {} for others)
StoredChunks == {"chunk_1", "chunk_2"}

\* the text context built from the source chunk ids
TextContext(with_text, source_chunk_ids) ==
    IF with_text /\ source_chunk_ids # {}
    THEN [ header |-> "--- Testo Originale dalle Guide per Contesto Aggiuntivo ---",
           lines |-> source_chunk_ids \cap StoredChunks ]
    ELSE EmptyText

-----------------------------------------------------------------------------
(* Extraction orchestrator: extract_knowledge_from_chunks (build_KG.py) and  *)
(* extract_knowledge_from_chunks_with_checkpoint (KG_checkpoint.py).         *)
(* A model answer is what call_llm_api returned for the chunk: kind          *)
(* "no_output" is the empty string (the call failed on every attempt, the    *)
(* answer was blocked, or it was empty), "garbage" is text json.loads        *)
(* rejects, "json" is an object with the lists "entita" and "relazioni".     *)
(* call_llm_api catches every Exception, so no model call raises here.       *)

ENTITY_TYPES == {
    "PiattaformaModulo", "Funzionalit@Piattaforma", "RuoloUtente", "AzioneUtente",
    "OperazioneSistema", "InterfacciaUtenteElemento", "ComandoUI", "DocumentoSistema",
    "TipoDocumento", "Prerequisito", "Condizione", "ParametroConfigurazione", "Criterio",
    "StatoDocumento", "StatoProcedura", "EnteEsterno", "Organismo", "TermineTemporale",
    "Scadenza", "MessaggioSistema", "Notifica", "SezioneGuida" }

\* a key the record does not have
Missing == "<missing>"

\* a JSON value that is no list where a list is expected, an element that is
\* no object, and a name that is a JSON array or object (unhashable in Python)
NotAList == <<[not_a_list |-> TRUE]>>
NotADict == [not_a_dict |-> TRUE]
Unhashable == "<unhashable>"

\* parse_llm_extraction_output: the entities with both keys and a type of the
\* vocabulary, the relations with the three keys and a predicate of the
\* vocabulary; text that is no JSON gives two empty lists.  When "relazioni"
\* is a list, the set of the valid entities' names is built first: a name that
\* cannot be hashed raises there, and the handler returns two empty lists.
parse_llm_extraction_output(response) ==
    IF response.kind # "json" THEN [entities |-> <<>>, relations |-> <<>>]
    ELSE LET ValidEntity(e) ==
                 /\ e # NotADict
                 /\ e.nome_entita # Missing /\ e.tipo_entita # Missing
                 /\ e.tipo_entita \in ENTITY_TYPES
             ValidRelation(r) ==
                 /\ r # NotADict
                 /\ r.soggetto # Missing /\ r.predicato # Missing /\ r.oggetto # Missing
                 /\ r.predicato \in RELATION_TYPES
             valid_entities ==
                 IF response.entita # NotAList
                 THEN SelectSeq(response.entita, ValidEntity) ELSE <<>>
             valid_relations ==
                 IF response.relazioni # NotAList
                 THEN SelectSeq(response.relazioni, ValidRelation) ELSE <<>>
             raises ==
                 /\ response.relazioni # NotAList
                 /\ \E j \in 1..Len(valid_entities) :
                        valid_entities[j].nome_entita = Unhashable
         IN  IF raises THEN [entities |-> <<>>, relations |-> <<>>]
             ELSE [entities |-> valid_entities, relations |-> valid_relations]

\* entity['source_chunk_id'] = chunk_id, ... : the record with its provenance
WithProvenance(record, chunk) ==
    [ k \in DOMAIN record \cup {"source_chunk_id", "source_page_number", "source_section_title"} |->
        IF k = "source_chunk_id" THEN chunk.chunk_id
        ELSE IF k = "source_page_number" THEN chunk.page_number
        ELSE IF k = "source_section_title" THEN chunk.section_title
        ELSE record[k] ]

\* the body of the loop for one chunk: what it adds to all_entities and
\* all_relations; a chunk without text is skipped before the model is called
ChunkResult(chunk, llm_output) ==
    IF Strip(chunk.text) = "" \/ llm_output.kind = "no_output"
    THEN [entities |-> <<>>, relations |-> <<>>]
    ELSE LET parsed == parse_llm_extraction_output(llm_output)
         IN  [ entities |-> [j \in 1..Len(parsed.entities) |->
                                WithProvenance(parsed.entities[j], chunk)],
               relations |-> [j \in 1..Len(parsed.relations) |->
                                WithProvenance(parsed.relations[j], chunk)] ]

\* variant: the loop stops at the first chunk that yields no output
NextIndexStopping(i, chunk, llm_output, n) ==
    IF Strip(chunk.text) # "" /\ llm_output.kind # "json" THEN n ELSE i + 1

\* `for i in range(start_index, len(chunks))`: the index after i, whatever
\* happened to chunk i
NextIndex(i, chunk, llm_output, n) == i + 1

\* variant: a resumed run starts at the first chunk again
StartIndexZero(checkpoint_data) == 0

\* start_index = checkpoint_data['processed_count']
StartIndex(checkpoint_data) == checkpoint_data.processed_count

-----------------------------------------------------------------------------
(* call_llm_api (build_KG.py): the model call with its retry loop.  One      *)
(* attempt ends in one of: "ok" (finish reason STOP, the text is returned    *)
(* stripped), "blocked" (any other finish reason), "rate_limited" (an        *)
(* exception whose message has "quota", "rate" or "429"), "error" (any other *)
(* exception).                                                               *)

\* the delay argument, always left at its default
delay == 5

RECURSIVE Pow2(_)
Pow2(n) == IF n = 0 THEN 1 ELSE 2 * Pow2(n - 1)

\* variant: one attempt more than max_retries
AttemptRangeInclusive(retries) == 0..retries

\* `for attempt in range(max_retries)`
AttemptRange(retries) == 0..(retries - 1)

\* what an attempt makes the function do: return a string, or sleep and go on
\* with the next attempt; after a rate limit the loop always goes on
AttemptEffect(a, retries, outcome, text) ==
    IF outcome = "ok" THEN [returns |-> TRUE, value |-> Strip(text), sleep |-> 0]
    ELSE IF outcome = "blocked" THEN [returns |-> TRUE, value |-> "", sleep |-> 0]
    ELSE IF outcome = "rate_limited"
         THEN [returns |-> FALSE, value |-> "", sleep |-> delay * Pow2(a)]
    ELSE IF a < retries - 1 THEN [returns |-> FALSE, value |-> "", sleep |-> delay]
    ELSE [returns |-> TRUE, value |-> "", sleep |-> 0]

-----------------------------------------------------------------------------
(* Asynchronous extraction: KnowledgeGraphCreation/build_KG_graphrag.py.     *)
(* The semaphore is asyncio.Semaphore as CPython 3.11 implements it.         *)

MAX_CONCURRENT_REQUESTS == 5

\* `for attempt in range(3)` of _sync_extract
SYNC_ATTEMPTS == 3

EmptyExtraction == [nodes |-> <<>>, relationships |-> <<>>]

\* EntityNormalizer.normalize_entity_name of this file:
\* ' '.join(entity_name.strip().lower().split())
graphrag_normalize_entity_name(entity_name) == Join(Split(Lower(Strip(entity_name))))

\* a key that is there and truthy
Present(x) == x # Missing /\ x # ""

\* node_id_to_name.get(node_id): a dict comprehension, so the last node with
\* that id and a name wins
RECURSIVE NodeIdToName(_, _)
NodeIdToName(gemini_nodes, node_id) ==
    IF gemini_nodes = <<>> \/ node_id = Missing THEN Missing
    ELSE LET node == gemini_nodes[Len(gemini_nodes)]
         IN  IF Present(node.id) /\ Present(node.properties.name) /\ node.id = node_id
             THEN node.properties.name
             ELSE NodeIdToName(SubSeq(gemini_nodes, 1, Len(gemini_nodes) - 1), node_id)

AdaptedEntity(node, original_chunk) ==
    [ nome_entita |-> graphrag_normalize_entity_name(node.properties.name),
      tipo_entita |-> IF node.label = Missing THEN "Unknown" ELSE node.label,
      descrizione_entita |->
          IF node.properties.description = Missing
          THEN "Entit@ estratta da " \o original_chunk.source_file \o "."
          ELSE node.properties.description,
      source_chunk_id |-> original_chunk.chunk_id,
      source_page_number |-> original_chunk.page_number,
      source_section_title |-> None ]

AdaptedRelation(rel, gemini_nodes, original_chunk) ==
    [ soggetto |-> graphrag_normalize_entity_name(NodeIdToName(gemini_nodes, rel.start_node_id)),
      predicato |-> rel.type,
      oggetto |-> graphrag_normalize_entity_name(NodeIdToName(gemini_nodes, rel.end_node_id)),
      contesto_relazione |->
          IF rel.context = Missing
          THEN "Relazione estratta da " \o original_chunk.source_file \o "."
          ELSE rel.context,
      source_chunk_id |-> original_chunk.chunk_id,
      source_page_number |-> original_chunk.page_number,
      source_section_title |-> None ]

\* nodes without a name and relations without both named endpoints and a type
\* are left out
adapt_gemini_output(gemini_nodes, gemini_relations, original_chunk) ==
    LET Named(node) == Present(node.properties.name)
        Complete(rel) == /\ Present(NodeIdToName(gemini_nodes, rel.start_node_id))
                         /\ Present(NodeIdToName(gemini_nodes, rel.end_node_id))
                         /\ Present(rel.type)
        nodes_kept == SelectSeq(gemini_nodes, Named)
        rels_kept == SelectSeq(gemini_relations, Complete)
    IN  [ entities |-> [j \in 1..Len(nodes_kept) |-> AdaptedEntity(nodes_kept[j], original_chunk)],
          relations |-> [j \in 1..Len(rels_kept) |->
                            AdaptedRelation(rels_kept[j], gemini_nodes, original_chunk)] ]

\* _sync_extract from attempt `attempt` on: the parsed JSON of the first
\* attempt that succeeds; the third failure is raised
RECURSIVE sync_extract(_, _)
sync_extract(att, attempt_outcomes) ==
    IF attempt_outcomes[att + 1].ok
    THEN [raised |-> FALSE, value |-> attempt_outcomes[att + 1].json]
    ELSE IF att = SYNC_ATTEMPTS - 1 THEN [raised |-> TRUE, value |-> EmptyExtraction]
    ELSE sync_extract(att + 1, attempt_outcomes)

\* variant: the semaphore never makes a task wait
lockedNever(value, waiters, pcs) == FALSE

\* Semaphore.locked(): no permit left, or somebody is queued and not yet woken
locked(value, waiters, pcs) ==
    value = 0 \/ \E k \in 1..Len(waiters) : pcs[waiters[k]] = "waiting"

\* Semaphore._wake_up_next(): the oldest waiter not yet woken takes a permit
wake_up_next(value, waiters, pcs) ==
    LET waiting == { k \in 1..Len(waiters) : pcs[waiters[k]] = "waiting" }
    IN  IF waiting = {} THEN [value |-> value, pcs |-> pcs]
        ELSE LET first == CHOOSE k \in waiting : \A m \in waiting : k <= m
             IN  [value |-> value - 1, pcs |-> [pcs EXCEPT ![waiters[first]] = "woken"]]

\* Semaphore.release(), at the exit of `async with self.semaphore`
release(value, waiters, pcs) == wake_up_next(value + 1, waiters, pcs)

\* variant: no gathered result is adapted
HasContentNever(result) == FALSE

\* `if nodes or relations`
HasContent(result) == result.nodes # <<>> \/ result.relationships # <<>>

\* the loop over the gathered results, from result i on; extract_async catches
\* every Exception, so no gathered result is one
RECURSIVE AggregateResults(_, _, _)
AggregateResults(results, task_chunks, i) ==
    IF i > Len(results) THEN [entities |-> <<>>, relations |-> <<>>]
    ELSE LET result == results[i][1]
             rest == AggregateResults(results, task_chunks, i + 1)
         IN  IF HasContent(result)
             THEN LET adapted == adapt_gemini_output(result.nodes, result.relationships,
                                                     task_chunks[i])
                  IN  [ entities |-> adapted.entities \o rest.entities,
                        relations |-> adapted.relations \o rest.relations ]
             ELSE rest

-----------------------------------------------------------------------------
(* SpecNorm: the normalizer applied to bounded inputs.                       *)

MaxWords == 3

NormWords == {"registro", "dei", "fornitori", "Password", "gara"}

RECURSIVE Phrases(_)
Phrases(n) ==
    IF n = 0 THEN {""}
    ELSE IF n = 1 THEN NormWords
    ELSE Phrases(n - 1) \cup { p \o " " \o w : p \in Phrases(n - 1) \ NormWords, w \in NormWords }
                        \cup { p \o " " \o w : p \in NormWords, w \in NormWords }

ExtraNames == {"", "  ", " Password ", "D.G.U.E.", "em  pulia", "il", "a e", "d%accesso"}

NameInputs == Phrases(MaxWords) \cup ExtraNames

InitNorm ==
    /\ nName \in NameInputs
    /\ nOnce = NoValue /\ nTwice = NoValue /\ nPatterns = NoValue
    /\ AggIdle /\ ClusterIdle /\ LoadIdle /\ RetrIdle /\ ExtrIdle /\ LlmIdle /\ ParseIdle /\ AsyncIdle /\ RerankIdle

Normalize ==
    /\ nName # NoValue /\ nOnce = NoValue
    /\ nOnce' = normalize_entity_name(nName)
    /\ UNCHANGED <<nName, nTwice, nPatterns, normOthers>>

Renormalize ==
    /\ nOnce # NoValue /\ nTwice = NoValue
    /\ nTwice' = normalize_entity_name(nOnce)
    /\ UNCHANGED <<nName, nOnce, nPatterns, normOthers>>

CreateSearchPatterns ==
    /\ nName # NoValue /\ nPatterns = NoValue
    /\ nPatterns' = create_search_patterns(nName)
    /\ UNCHANGED <<nName, nOnce, nTwice, normOthers>>

NextNorm == Normalize \/ Renormalize \/ CreateSearchPatterns

SpecNorm == InitNorm /\ [][NextNorm]_vars

-----------------------------------------------------------------------------
(* SpecAgg: aggregate_knowledge_improved on bounded lists of raw mentions.   *)

MaxMentions == 3

\* where the k-th mention of the input comes from (chunk id, page, section title)
Provenances == <<
    [source_chunk_id |-> "chunk_1", source_page_number |-> <<0>>,
     source_section_title |-> "REGISTRAZIONE UTENTE PA"],
    [source_chunk_id |-> "chunk_2", source_page_number |-> <<1>>,
     source_section_title |-> ""],
    [source_chunk_id |-> "chunk_3", source_page_number |-> NoPage,
     source_section_title |-> "ACCESSO"] >>

ProvenanceAt(k) == Provenances[IF k <= Len(Provenances) THEN k ELSE Len(Provenances)]

AggNames == {"Password", "password ", "la password", ""}
AggTypes == {"PiattaformaModulo", "Funzionalit@Piattaforma"}

DescriptionOf(name) ==
    IF name = "Password" THEN "Credenziale di accesso"
    ELSE IF name = "password " THEN " Credenziale di accesso "
    ELSE IF name = "la password" THEN None
    ELSE ""

\* what the model may report for an entity: a name and a type; one has no type
EntityTemplates ==
    { [nome_entita |-> n, tipo_entita |-> t, descrizione_entita |-> DescriptionOf(n)] :
        n \in AggNames, t \in AggTypes }
    \cup { [nome_entita |-> "Password", tipo_entita |-> "", descrizione_entita |-> None] }

Tagged(template, k) ==
    [ nome_entita |-> template.nome_entita,
      tipo_entita |-> template.tipo_entita,
      descrizione_entita |-> template.descrizione_entita,
      source_chunk_id |-> ProvenanceAt(k).source_chunk_id,
      source_page_number |-> ProvenanceAt(k).source_page_number,
      source_section_title |-> ProvenanceAt(k).source_section_title ]

EntityInputs ==
    UNION { { [k \in 1..n |-> Tagged(f[k], k)] : f \in [1..n -> EntityTemplates] } :
            n \in 0..MaxMentions }

RawRelation(s, p, o, ctx, k) ==
    [ soggetto |-> s, predicato |-> p, oggetto |-> o, contesto_relazione |-> ctx,
      source_chunk_id |-> ProvenanceAt(k).source_chunk_id,
      source_page_number |-> ProvenanceAt(k).source_page_number,
      source_section_title |-> ProvenanceAt(k).source_section_title ]

RelationInputs == {
    <<>>,
    << RawRelation("Password", "haCampo", "Albo", "campo dell'albo", 1),
       RawRelation("password ", "HaCampo", "albo", None, 2),
       RawRelation("Albo", "riguarda", "la password", "", 3),
       RawRelation("", "riguarda", "Albo", None, 3) >> }

InitAgg ==
    /\ entities \in EntityInputs
    /\ relations \in RelationInputs
    /\ aggregated_entities = NoValue /\ aggregated_relations = NoValue
    /\ aggPc = "start"
    /\ NormIdle /\ ClusterIdle /\ LoadIdle /\ RetrIdle /\ ExtrIdle /\ LlmIdle /\ ParseIdle /\ AsyncIdle /\ RerankIdle

\* aggregate_knowledge_improved(entities, relations)
AggregateKnowledgeImproved ==
    /\ aggPc = "start"
    /\ aggregated_entities' = AggregatedEntitiesOf(entities)
    /\ aggregated_relations' = AggregatedRelationsOf(relations)
    /\ aggPc' = "done"
    /\ UNCHANGED <<entities, relations, aggOthers>>

NextAgg == AggregateKnowledgeImproved

SpecAgg == InitAgg /\ [][NextAgg]_vars

-----------------------------------------------------------------------------
(* SpecCluster: llm_cluster_knowledge on an aggregated dataset, the model    *)
(* answering each batch with any of a bounded set of answers.                *)

MaxBatchSize == 2
MaxMembers == 2

\* raw mentions whose aggregation gives two entities and three relations
ClusterMentions == <<
    Tagged([nome_entita |-> "EmPULIA", tipo_entita |-> "PiattaformaModulo",
            descrizione_entita |-> "Portale degli acquisti"], 1),
    Tagged([nome_entita |-> "Password", tipo_entita |-> "Funzionalit@Piattaforma",
            descrizione_entita |-> None], 2),
    Tagged([nome_entita |-> "empulia", tipo_entita |-> "PiattaformaModulo",
            descrizione_entita |-> ""], 3) >>

ClusterRelationMentions == <<
    RawRelation("EmPULIA", "richiedeInput", "Password", "accesso al portale", 1),
    RawRelation("Password", "riguarda", "EmPULIA", None, 2),
    RawRelation("empulia", "riguarda", "Utente", "", 3),
    RawRelation("empulia", "RichiedeInput", "password", None, 3) >>

ClusterDatasets == {
    [entities |-> <<>>, relations |-> <<>>],
    [entities |-> ClusterMentions, relations |-> ClusterRelationMentions] }

\* a duplicate-free id list in ascending order
RECURSIVE Ascending(_)
Ascending(S) ==
    IF S = {} THEN <<>>
    ELSE LET least == CHOOSE x \in S : \A y \in S : x <= y
         IN  <<least>> \o Ascending(S \ {least})

\* the member lists a proposed cluster may carry: up to MaxMembers ids among
\* 0..n, of which n is no position of the input list; the empty list too
MemberIdLists(n) ==
    { Ascending(S) : S \in { T \in SUBSET (0..n) : Cardinality(T) <= MaxMembers } }

\* a cluster the model proposes for these ids: it names it after its first member
ProposedEntityCluster(ids, prepared) ==
    LET known == Len(ids) > 0 /\ ids[1] < Len(prepared)
    IN  [ membri_ids |-> ids,
          nome_cluster |-> IF known THEN prepared[ids[1] + 1].nome_principale ELSE "Sconosciuto",
          tipo_cluster |-> IF known THEN prepared[ids[1] + 1].tipo_principale ELSE "Sconosciuto",
          motivazione |-> "Stesso concetto" ]

\* the predicate is copied as the prompt shows it (lowercased by aggregation)
ProposedRelationCluster(ids, prepared) ==
    LET known == Len(ids) > 0 /\ ids[1] < Len(prepared)
    IN  [ membri_ids |-> ids,
          soggetto_cluster |-> IF known THEN prepared[ids[1] + 1].soggetto ELSE "Sconosciuto",
          predicato_cluster |-> IF known THEN prepared[ids[1] + 1].predicato ELSE "Sconosciuto",
          oggetto_cluster |-> IF known THEN prepared[ids[1] + 1].oggetto ELSE "Sconosciuto",
          motivazione |-> "Stessa relazione" ]

\* two different member lists over the positions 0..n-1 that share an id
SharingPairs(n) ==
    LET lists == { ids \in MemberIdLists(n) :
                     ids # <<>> /\ \A k \in 1..Len(ids) : ids[k] < n }
    IN  { p \in lists \X lists : p[1] # p[2] /\ Range(p[1]) \cap Range(p[2]) # {} }

\* a cluster of one entity that the model names "Portale", whichever it is
EntityClusterNamedPortale(id, prepared) ==
    [ProposedEntityCluster(<<id>>, prepared) EXCEPT !.nome_cluster = "Portale"]

\* a relation cluster the model proposes without the key "soggetto_cluster"
RelationClusterWithoutSubject(ids, prepared) ==
    [ProposedRelationCluster(ids, prepared) EXCEPT !.soggetto_cluster = Missing]

\* what the model may answer to a batch prompt: nothing, text that is no JSON,
\* JSON with at most one entity cluster and at most one relation cluster,
\* JSON with two clusters of one kind that share an id, JSON with a
\* relation cluster for the first relation that lacks its subject, or JSON
\* with a cluster of one entity under the name "Portale"
ModelAnswers(prepared_entities, prepared_relations) ==
    { [kind |-> k, entita_clusters |-> <<>>, relazioni_clusters |-> <<>>] :
        k \in {"empty", "garbage"} }
    \cup
    { [kind |-> "json", entita_clusters |-> ec, relazioni_clusters |-> rc] :
        ec \in {<<>>} \cup { <<ProposedEntityCluster(ids, prepared_entities)>> :
                              ids \in MemberIdLists(Len(prepared_entities)) },
        rc \in {<<>>} \cup { <<ProposedRelationCluster(ids, prepared_relations)>> :
                              ids \in MemberIdLists(Len(prepared_relations)) } }
    \cup
    { [ kind |-> "json",
        entita_clusters |-> << ProposedEntityCluster(p[1], prepared_entities),
                               ProposedEntityCluster(p[2], prepared_entities) >>,
        relazioni_clusters |-> <<>> ] : p \in SharingPairs(Len(prepared_entities)) }
    \cup
    { [ kind |-> "json",
        entita_clusters |-> <<>>,
        relazioni_clusters |-> << ProposedRelationCluster(p[1], prepared_relations),
                                  ProposedRelationCluster(p[2], prepared_relations) >> ] :
        p \in SharingPairs(Len(prepared_relations)) }
    \cup
    { [ kind |-> "json",
        entita_clusters |-> <<>>,
        relazioni_clusters |-> << RelationClusterWithoutSubject(ids, prepared_relations) >> ] :
        ids \in { x \in {<<0>>} : Len(prepared_relations) > 0 } }
    \cup
    { [ kind |-> "json",
        entita_clusters |-> << EntityClusterNamedPortale(id, prepared_entities) >>,
        relazioni_clusters |-> <<>> ] : id \in 0..(Len(prepared_entities) - 1) }

InitCluster ==
    /\ \E d \in ClusterDatasets :
         /\ entities = d.entities
         /\ relations = d.relations
         /\ aggregated_entities = AggregatedEntitiesOf(d.entities)
         /\ aggregated_relations = AggregatedRelationsOf(d.relations)
    /\ aggPc = "done"
    /\ batch_size \in 1..MaxBatchSize
    /\ entities_processed = 0 /\ relations_processed = 0
    /\ all_entity_clusters = <<>> /\ all_relation_clusters = <<>>
    /\ final_clustered_entities = NoValue /\ final_clustered_relations = NoValue
    /\ batchLog = <<>>
    /\ clusterPc = "start"
    /\ NormIdle /\ LoadIdle /\ RetrIdle /\ ExtrIdle /\ LlmIdle /\ ParseIdle /\ AsyncIdle /\ RerankIdle

\* batch_size_entities and batch_size_relations
BatchSizeEntities ==
    IF Len(aggregated_entities) > 0
    THEN (IF batch_size < Len(aggregated_entities) THEN batch_size ELSE Len(aggregated_entities))
    ELSE 0
BatchSizeRelations ==
    IF Len(aggregated_relations) > 0
    THEN (IF batch_size * 2 < Len(aggregated_relations)
          THEN batch_size * 2 ELSE Len(aggregated_relations))
    ELSE 0

\* the `while` condition of llm_cluster_knowledge
MoreBatches ==
    \/ entities_processed < Len(aggregated_entities)
    \/ relations_processed < Len(aggregated_relations)

\* llm_cluster_knowledge up to its loop: nothing to cluster returns [], []
StartClustering ==
    /\ clusterPc = "start"
    /\ IF Len(aggregated_entities) = 0 /\ Len(aggregated_relations) = 0
       THEN /\ final_clustered_entities' = <<>>
            /\ final_clustered_relations' = <<>>
            /\ clusterPc' = "done"
       ELSE /\ UNCHANGED <<final_clustered_entities, final_clustered_relations>>
            /\ clusterPc' = "batching"
    /\ UNCHANGED <<batch_size, entities_processed, relations_processed,
                   all_entity_clusters, all_relation_clusters, batchLog, clusterOthers>>

\* one iteration of the loop: the batch is cut, the model answers, and
\* process_combined_batch turns the answer into clusters
ProcessCombinedBatch ==
    /\ clusterPc = "batching" /\ MoreBatches
    /\ LET prepared_entities == prepare_entities_for_clustering(aggregated_entities)
           prepared_relations == prepare_relations_for_clustering(aggregated_relations)
           entity_batch ==
               IF entities_processed < Len(prepared_entities)
               THEN Slice(prepared_entities, entities_processed, BatchSizeEntities) ELSE <<>>
           relation_batch ==
               IF relations_processed < Len(prepared_relations)
               THEN Slice(prepared_relations, relations_processed, BatchSizeRelations) ELSE <<>>
       IN  \E llm_output \in ModelAnswers(prepared_entities, prepared_relations) :
             LET out == process_combined_batch(entity_batch, relation_batch, llm_output)
             IN  /\ all_entity_clusters' = all_entity_clusters \o out.entity_clusters
                 /\ all_relation_clusters' = all_relation_clusters \o out.relation_clusters
                 /\ entities_processed' = entities_processed + Len(entity_batch)
                 /\ relations_processed' = relations_processed + Len(relation_batch)
                 /\ batchLog' = Append(batchLog,
                        [ entity_ids |-> { entity_batch[i].id : i \in 1..Len(entity_batch) },
                          relation_ids |-> { relation_batch[i].id : i \in 1..Len(relation_batch) },
                          answer |-> llm_output.kind ])
    /\ UNCHANGED <<batch_size, final_clustered_entities, final_clustered_relations,
                   clusterPc, clusterOthers>>

\* `cluster["soggetto_cluster"].lower()` and `cluster["oggetto_cluster"].lower()`
\* in the first loop of finalize_relation_clusters: a kept cluster without
\* one of the two keys raises KeyError, and nothing around it catches
FinalizeRelationsRaises(all_clusters) ==
    LET kept == KeptClusters(all_clusters, {}, <<>>).kept
    IN  \E i \in 1..Len(kept) :
            kept[i].soggetto_cluster = Missing \/ kept[i].oggetto_cluster = Missing

\* after the loop: both finalize steps, and the return; an error raised by a
\* finalize step leaves llm_cluster_knowledge without a result
FinalizeClusters ==
    /\ clusterPc = "batching" /\ ~MoreBatches
    /\ IF FinalizeRelationsRaises(all_relation_clusters)
       THEN /\ clusterPc' = "raised"
            /\ UNCHANGED <<final_clustered_entities, final_clustered_relations>>
       ELSE /\ LET final_entities ==
                      finalize_entity_clusters(all_entity_clusters, aggregated_entities)
               IN  /\ final_clustered_entities' = final_entities
                   /\ final_clustered_relations' =
                        finalize_relation_clusters(all_relation_clusters,
                                                   aggregated_relations, final_entities)
            /\ clusterPc' = "done"
    /\ UNCHANGED <<batch_size, entities_processed, relations_processed,
                   all_entity_clusters, all_relation_clusters, batchLog, clusterOthers>>

NextCluster == StartClustering \/ ProcessCombinedBatch \/ FinalizeClusters

SpecCluster == InitCluster /\ [][NextCluster]_vars

-----------------------------------------------------------------------------
(* SpecLoad: the same clustered dataset loaded into one graph repeatedly,    *)
(* upload_entities then upload_relations each time, as main() orders them.   *)

MaxLoadRecords == 2
MaxLoads == 2

EntityClusterOf(name, type, members) ==
    [ nome_entita_cluster |-> name, tipo_entita_cluster |-> type,
      membri_cluster |-> members, tipi_membri_cluster |-> {type},
      descrizioni_aggregate |-> {}, fonti_aggregate_chunk_id |-> {"chunk_1"},
      fonti_aggregate_pagina |-> {1}, fonti_aggregate_sezione |-> {},
      conteggio_occorrenze_totale |-> Cardinality(members),
      motivazione_clustering |-> "", membri_ids_originali |-> <<0>> ]

LoadEntityPool == {
    EntityClusterOf("EmPULIA", "PiattaformaModulo", {"EmPULIA", "empulia"}),
    EntityClusterOf("EmPULIA", "EnteEsterno", {"EmPULIA"}),
    EntityClusterOf("password", "Funzionalit@Piattaforma", {"Password", "password"}),
    EntityClusterOf("Profilo", "RuoloUtente", {"Profilo"}),
    EntityClusterOf(" ", "PiattaformaModulo", {}) }

RelationClusterOf(s, p, o) ==
    [ soggetto_cluster |-> s, predicato_cluster |-> p, oggetto_cluster |-> o,
      contesti_aggregati |-> {}, fonti_aggregate_chunk_id |-> {"chunk_1"},
      fonti_aggregate_pagina |-> {1}, fonti_aggregate_sezione |-> {},
      predicati_originali_cluster |-> {Lower(p)}, conteggio_occorrenze_totale |-> 1,
      motivazione_clustering |-> "", membri_ids_originali |-> <<0>> ]

LoadRelationPool == {
    RelationClusterOf("EmPULIA", "richiedeInput", "password"),
    RelationClusterOf("password", "riguarda", "utente"),
    RelationClusterOf("", "riguarda", "password") }

\* the lists of at most MaxLoadRecords records of a pool
ListsOver(pool) ==
    UNION { [1..n -> pool] : n \in 0..MaxLoadRecords }

\* the clusters file a later run of the pipeline writes for the same names:
\* another type, a description, one member, other chunks, another count
RevisedEntities(ents) ==
    [ k \in 1..Len(ents) |->
        [ ents[k] EXCEPT !.tipo_entita_cluster = "DocumentoSistema",
                         !.descrizioni_aggregate = {"Descrizione aggiornata"},
                         !.membri_cluster = {ents[k].nome_entita_cluster},
                         !.fonti_aggregate_chunk_id = {"chunk_9"},
                         !.conteggio_occorrenze_totale = 5 ] ]

InitLoad ==
    /\ loadEntities \in ListsOver(LoadEntityPool)
    /\ loadRelations \in ListsOver(LoadRelationPool)
    /\ graphNodes = {} /\ graphEdges = <<>>
    /\ loadCounts = <<>> /\ storeErrors = 0
    /\ loadPc = "entities"
    /\ NormIdle /\ AggIdle /\ ClusterIdle /\ RetrIdle /\ ExtrIdle /\ LlmIdle /\ ParseIdle /\ AsyncIdle /\ RerankIdle

\* upload_entities(entities): one batch (batch_size is 1000), one store call
UploadEntities ==
    /\ loadPc = "entities" /\ Len(loadCounts) < MaxLoads
    /\ \E ok \in BOOLEAN :
         IF Len(ValidEntities(loadEntities)) = 0
         THEN UNCHANGED <<graphNodes, storeErrors>>
         ELSE IF ok
         THEN /\ graphNodes' = MergeNodes(graphNodes, ValidEntities(loadEntities))
              /\ UNCHANGED storeErrors
         ELSE /\ storeErrors' = storeErrors + 1
              /\ UNCHANGED graphNodes
    /\ loadPc' = "relations"
    /\ UNCHANGED <<loadEntities, loadRelations, graphEdges, loadCounts, loadOthers>>

\* upload_relations(relations): one batch (batch_size is 500), one store call;
\* the load is then complete and the size of the graph is noted
UploadRelations ==
    /\ loadPc = "relations"
    /\ \E ok \in BOOLEAN :
         /\ IF Len(ValidRelations(loadRelations)) = 0
            THEN UNCHANGED <<graphEdges, storeErrors>>
            ELSE IF ok
            THEN /\ graphEdges' = CreateEdges(graphNodes, graphEdges, ValidRelations(loadRelations))
                 /\ UNCHANGED storeErrors
            ELSE /\ storeErrors' = storeErrors + 1
                 /\ UNCHANGED graphEdges
         /\ loadCounts' = Append(loadCounts,
                [nodes |-> Cardinality(graphNodes), edges |-> Len(graphEdges')])
    /\ loadPc' = "entities"
    /\ UNCHANGED <<loadEntities, loadRelations, graphNodes, loadOthers>>

\* before a later load the clusters file is read again, and it has changed
LoadRevisedFile ==
    /\ loadPc = "entities" /\ Len(loadCounts) >= 1 /\ Len(loadCounts) < MaxLoads
    /\ loadEntities # RevisedEntities(loadEntities)
    /\ loadEntities' = RevisedEntities(loadEntities)
    /\ UNCHANGED <<loadRelations, graphNodes, graphEdges, loadCounts, storeErrors, loadPc,
                   loadOthers>>

NextLoad == UploadEntities \/ UploadRelations \/ LoadRevisedFile

SpecLoad == InitLoad /\ [][NextLoad]_vars

-----------------------------------------------------------------------------
(* SpecRetrieve: retrieve_knowledge for a bounded set of question analyses   *)
(* over the graphs the loader builds from its bounded datasets.              *)

AnalysisNames == {"Password", "il registro", "Registro Fornitori", "", "gara telematica", None}

Analyses ==
    { [valid |-> TRUE, intento |-> i, entita_chiave |-> ec] :
        i \in {"find_procedure", "find_definition", "find_relationship", None},
        ec \in {<<>>} \cup { <<[nome |-> x, tipo |-> "Funzionalit@Piattaforma"]>> :
                               x \in AnalysisNames }
                      \cup { <<[nome |-> None, tipo |-> "Funzionalit@Piattaforma"],
                               [nome |-> "Password", tipo |-> "Funzionalit@Piattaforma"]>> } }
    \cup { [valid |-> FALSE, intento |-> None, entita_chiave |-> <<>>] }

\* the graphs one load of a bounded dataset into an empty store leaves
LoadedGraphs ==
    { LET nodes == MergeNodes({}, ValidEntities(es))
      IN  [nodes |-> nodes, edges |-> CreateEdges(nodes, <<>>, ValidRelations(rs))] :
        es \in ListsOver(LoadEntityPool), rs \in ListsOver(LoadRelationPool) }

InitRetrieve ==
    /\ \E g \in LoadedGraphs : graphNodes = g.nodes /\ graphEdges = g.edges
    /\ loadEntities = <<>> /\ loadRelations = <<>>
    /\ loadCounts = <<>> /\ storeErrors = 0 /\ loadPc = "loaded"
    /\ analysis \in Analyses
    /\ retrieve_text \in BOOLEAN
    /\ query_results = {} /\ primary_results = NoValue /\ fallbackRuns = 0
    /\ storeCalls = <<>>
    /\ retrieved = NoValue
    /\ retrPc = "start"
    /\ NormIdle /\ AggIdle /\ ClusterIdle /\ ExtrIdle /\ LlmIdle /\ ParseIdle /\ AsyncIdle /\ RerankIdle

\* retrieve_knowledge up to the primary attempt: an analysis without
\* "entita_chiave" returns the error context; otherwise the primary query, if one
\* could be built, is run, and a store call that raises gives no rows
PrimaryQuery ==
    /\ retrPc = "start"
    /\ IF ~analysis.valid
       THEN /\ retrieved' = [ graph_context |->
                                [header |-> "Errore: formato di input non valido", lines |-> {}],
                              text_context |-> EmptyText ]
            /\ retrPc' = "done"
            /\ UNCHANGED <<query_results, primary_results, storeCalls>>
       ELSE /\ LET cypher_query == generate_cypher_from_analysis(analysis)
               IN  IF Len(cypher_query) > 0
                   THEN \E ok \in BOOLEAN :
                          /\ query_results' =
                                run_cypher_query(graphNodes, graphEdges, cypher_query, ok)
                          /\ storeCalls' =
                                Append(storeCalls, [query |-> "primary", ok |-> ok])
                   ELSE query_results' = {} /\ UNCHANGED storeCalls
            /\ primary_results' = query_results'
            /\ retrPc' = "primary_done"
            /\ UNCHANGED retrieved
    /\ UNCHANGED <<analysis, retrieve_text, fallbackRuns, retrOthers>>

\* the fallback attempt: a null name raises on .lower()
FallbackQuery ==
    /\ retrPc = "primary_done"
    /\ IF ~NeedsFallback(analysis, query_results)
       THEN /\ retrPc' = "format"
            /\ UNCHANGED <<query_results, fallbackRuns, storeCalls>>
       ELSE IF analysis.entita_chiave[1].nome = None
       THEN /\ retrPc' = "raised"
            /\ UNCHANGED <<query_results, fallbackRuns, storeCalls>>
       ELSE /\ \E ok \in BOOLEAN :
                 /\ query_results' =
                       run_cypher_query(graphNodes, graphEdges, <<FallbackToken(analysis)>>, ok)
                 /\ storeCalls' = Append(storeCalls, [query |-> "fallback", ok |-> ok])
            /\ fallbackRuns' = fallbackRuns + 1
            /\ retrPc' = "format"
    /\ UNCHANGED <<analysis, retrieve_text, primary_results, retrieved, retrOthers>>

\* the contexts are formatted and returned
FormatAndReturn ==
    /\ retrPc = "format"
    /\ LET formatted == format_context_from_results(query_results)
       IN  retrieved' = [ graph_context |-> formatted.context,
                          text_context |-> TextContext(retrieve_text, formatted.source_chunk_ids) ]
    /\ retrPc' = "done"
    /\ UNCHANGED <<analysis, retrieve_text, query_results, primary_results, fallbackRuns,
                   storeCalls, retrOthers>>

NextRetrieve == PrimaryQuery \/ FallbackQuery \/ FormatAndReturn

SpecRetrieve == InitRetrieve /\ [][NextRetrieve]_vars

-----------------------------------------------------------------------------
(* SpecExtract: one run of either orchestrator over a bounded chunk list,    *)
(* the model's answer to each chunk fixed beforehand; the checkpointed run   *)
(* may be stopped once and started again.                                    *)

MaxChunks == 3

ChunkEntityNames == <<"EmPULIA", "Password", "Albo Fornitori">>

\* the chunk at position i (0-based), with or without text
ChunkAt(i, has_text) ==
    [ chunk_id |-> "chunk_" \o ToString(i),
      page_number |-> <<i>>,
      section_title |-> "ACCESSO",
      text |-> IF has_text THEN "Per accedere inserire la password." ELSE "  " ]

\* what the model may answer for the chunk at position i; the JSON answer has
\* one entity of a valid type, one of a type outside the vocabulary, one record
\* without a type, one valid relation and one with an unknown predicate
AnswersAt(i) ==
    LET name == ChunkEntityNames[IF i < Len(ChunkEntityNames) THEN i + 1
                                 ELSE Len(ChunkEntityNames)]
    IN  { [kind |-> k, entita |-> <<>>, relazioni |-> <<>>] : k \in {"no_output", "garbage"} }
        \cup
        { [ kind |-> "json",
            entita |-> <<
               [nome_entita |-> name, tipo_entita |-> "PiattaformaModulo",
                descrizione_entita |-> "Descrizione"],
               [nome_entita |-> name, tipo_entita |-> "TipoInventato",
                descrizione_entita |-> None],
               [nome_entita |-> "Utente", tipo_entita |-> Missing,
                descrizione_entita |-> None] >>,
            relazioni |-> <<
               [soggetto |-> "Utente", predicato |-> "richiedeInput", oggetto |-> name,
                contesto_relazione |-> "accesso"],
               [soggetto |-> "Utente", predicato |-> "usa", oggetto |-> name,
                contesto_relazione |-> None] >> ] }

InitExtract ==
    /\ \E n \in 0..MaxChunks :
         /\ \E has_text \in [1..n -> BOOLEAN] :
               chunks = [i \in 1..n |-> ChunkAt(i - 1, has_text[i])]
         /\ \E chosen \in [1..n -> {"no_output", "garbage", "json"}] :
               answers = [i \in 1..n |-> CHOOSE a \in AnswersAt(i - 1) : a.kind = chosen[i]]
    /\ variant \in {"plain", "checkpoint"}
    /\ checkpoint_every \in {1, 2}
    /\ checkpoint_file = <<>>
    /\ all_entities = <<>> /\ all_relations = <<>>
    /\ start_index = 0 /\ chunkIndex = 0
    /\ visited = <<>> /\ sent = <<>>
    /\ resumedFrom = -1 /\ stoppedOnce = FALSE
    /\ checkpointWrites = <<>>
    /\ extrPc = "start"
    /\ NormIdle /\ AggIdle /\ ClusterIdle /\ LoadIdle /\ RetrIdle /\ LlmIdle /\ ParseIdle /\ AsyncIdle /\ RerankIdle

\* extract_knowledge_from_chunks up to its loop
StartPlain ==
    /\ extrPc = "start" /\ variant = "plain"
    /\ all_entities' = <<>> /\ all_relations' = <<>>
    /\ start_index' = 0 /\ chunkIndex' = 0
    /\ visited' = <<>> /\ sent' = <<>>
    /\ extrPc' = "loop"
    /\ UNCHANGED <<chunks, answers, variant, checkpoint_every, checkpoint_file,
                   resumedFrom, stoppedOnce, checkpointWrites, extrOthers>>

\* extract_knowledge_from_chunks_with_checkpoint up to its loop: a checkpoint
\* that loads and that the user accepts gives the lists and the start index
StartWithCheckpoint ==
    /\ extrPc = "start" /\ variant = "checkpoint"
    /\ \E loaded \in BOOLEAN, confirmed \in BOOLEAN :
         IF Len(checkpoint_file) > 0 /\ loaded /\ confirmed
         THEN /\ all_entities' = checkpoint_file[1].all_entities
              /\ all_relations' = checkpoint_file[1].all_relations
              /\ start_index' = StartIndex(checkpoint_file[1])
              /\ resumedFrom' = checkpoint_file[1].processed_count
         ELSE /\ all_entities' = <<>> /\ all_relations' = <<>>
              /\ start_index' = 0
              /\ resumedFrom' = -1
    /\ chunkIndex' = start_index'
    /\ visited' = <<>> /\ sent' = <<>>
    /\ checkpointWrites' = <<>>
    /\ extrPc' = "loop"
    /\ UNCHANGED <<chunks, answers, variant, checkpoint_every, checkpoint_file,
                   stoppedOnce, extrOthers>>

\* variant: the checkpoint records the position but not the lists
SaveCheckpointWithoutLists(file, data, written) ==
    IF written THEN <<[data EXCEPT !.all_entities = <<>>, !.all_relations = <<>>]>> ELSE file

\* save_checkpoint: the file holds the data, unless the write failed, which
\* save_checkpoint only reports
save_checkpoint(file, data, written) == IF written THEN <<data>> ELSE file

\* one iteration of the loop of either orchestrator; the checkpointed one
\* writes a checkpoint when (i + 1) % checkpoint_every = 0, but not for a chunk
\* without text, whose `continue` skips the rest of the body
ProcessChunk ==
    /\ extrPc = "loop" /\ chunkIndex < Len(chunks)
    /\ LET i == chunkIndex
           chunk == chunks[i + 1]
           result == ChunkResult(chunk, answers[i + 1])
       IN  /\ all_entities' = all_entities \o result.entities
           /\ all_relations' = all_relations \o result.relations
           /\ visited' = Append(visited, i)
           /\ sent' = IF Strip(chunk.text) = "" THEN sent ELSE Append(sent, i)
           /\ IF /\ variant = "checkpoint"
                 /\ Strip(chunk.text) # ""
                 /\ (i + 1) % checkpoint_every = 0
              THEN /\ \E written \in BOOLEAN :
                        checkpoint_file' = save_checkpoint(checkpoint_file,
                            [ all_entities |-> all_entities', all_relations |-> all_relations',
                              processed_count |-> i + 1, total_chunks |-> Len(chunks),
                              completed |-> FALSE ], written)
                   /\ checkpointWrites' = Append(checkpointWrites,
                            [processed_count |-> i + 1, completed |-> FALSE])
              ELSE UNCHANGED <<checkpoint_file, checkpointWrites>>
           /\ chunkIndex' = NextIndex(i, chunk, answers[i + 1], Len(chunks))
    /\ UNCHANGED <<chunks, answers, variant, checkpoint_every, start_index,
                   resumedFrom, stoppedOnce, extrPc, extrOthers>>

\* after the loop: the checkpointed orchestrator writes the final checkpoint;
\* both return all_entities and all_relations
FinishExtraction ==
    /\ extrPc = "loop" /\ chunkIndex >= Len(chunks)
    /\ IF variant = "checkpoint"
       THEN /\ \E written \in BOOLEAN :
                 checkpoint_file' = save_checkpoint(checkpoint_file,
                     [ all_entities |-> all_entities, all_relations |-> all_relations,
                       processed_count |-> Len(chunks), total_chunks |-> Len(chunks),
                       completed |-> TRUE ], written)
            /\ checkpointWrites' = Append(checkpointWrites,
                     [processed_count |-> Len(chunks), completed |-> TRUE])
       ELSE UNCHANGED <<checkpoint_file, checkpointWrites>>
    /\ extrPc' = "done"
    /\ UNCHANGED <<chunks, answers, variant, checkpoint_every, all_entities, all_relations,
                   start_index, chunkIndex, visited, sent, resumedFrom, stoppedOnce,
                   extrOthers>>

\* the checkpointed run is killed between two chunks, or has ended, and the
\* program is started again on the same chunks; only the checkpoint file survives
StartAgain ==
    /\ variant = "checkpoint" /\ extrPc \in {"loop", "done"} /\ ~stoppedOnce
    /\ stoppedOnce' = TRUE
    /\ extrPc' = "start"
    /\ all_entities' = <<>> /\ all_relations' = <<>>
    /\ start_index' = 0 /\ chunkIndex' = 0
    /\ visited' = <<>> /\ sent' = <<>>
    /\ resumedFrom' = -1
    /\ checkpointWrites' = <<>>
    /\ UNCHANGED <<chunks, answers, variant, checkpoint_every, checkpoint_file, extrOthers>>

NextExtract ==
    StartPlain \/ StartWithCheckpoint \/ ProcessChunk \/ FinishExtraction \/ StartAgain

SpecExtract == InitExtract /\ [][NextExtract]_vars

-----------------------------------------------------------------------------
(* SpecLLM: one call of call_llm_api for one chunk, every attempt ending in  *)
(* any of its outcomes, and the orchestrator taking the returned string.     *)

MaxRetries == 3

\* the texts a model answer may carry: a JSON object, or only white space
ResponseTexts == {" {json} ", "  "}

AttemptOutcomes == {"ok", "blocked", "rate_limited", "error"}

\* the chunk the call is made for
LlmChunk == ChunkAt(0, TRUE)

\* the answer the orchestrator sees in the returned string
AnswerOfText(llm_output_str) ==
    CHOOSE a \in AnswersAt(0) :
        a.kind = (IF llm_output_str = "" THEN "no_output" ELSE "json")

InitLLM ==
    /\ max_retries \in 0..MaxRetries
    /\ attempt = 0
    /\ outcomes = <<>> /\ slept = <<>>
    /\ llmResult = NoValue /\ llmTaken = <<>>
    /\ llmPc = "call"
    /\ NormIdle /\ AggIdle /\ ClusterIdle /\ LoadIdle /\ RetrIdle /\ ExtrIdle /\ ParseIdle /\ AsyncIdle /\ RerankIdle

\* one pass through the body of the loop
Attempt ==
    /\ llmPc = "call" /\ attempt \in AttemptRange(max_retries)
    /\ \E outcome \in AttemptOutcomes, text \in ResponseTexts :
         LET effect == AttemptEffect(attempt, max_retries, outcome, text)
         IN  /\ outcomes' = Append(outcomes, outcome)
             /\ slept' = IF effect.sleep > 0 THEN Append(slept, effect.sleep) ELSE slept
             /\ IF effect.returns
                THEN /\ llmResult' = effect.value
                     /\ llmPc' = "returned"
                     /\ attempt' = attempt
                ELSE /\ attempt' = attempt + 1
                     /\ UNCHANGED <<llmResult, llmPc>>
    /\ UNCHANGED <<max_retries, llmTaken, llmOthers>>

\* the loop ran out of attempts: the `return ""` after it
Exhausted ==
    /\ llmPc = "call" /\ attempt \notin AttemptRange(max_retries)
    /\ llmResult' = ""
    /\ llmPc' = "returned"
    /\ UNCHANGED <<max_retries, attempt, outcomes, slept, llmTaken, llmOthers>>

\* the orchestrator's `if llm_output_str:` and what it adds for the chunk
TakeOutput ==
    /\ llmPc = "returned"
    /\ llmTaken' = <<ChunkResult(LlmChunk, AnswerOfText(llmResult))>>
    /\ llmPc' = "taken"
    /\ UNCHANGED <<max_retries, attempt, outcomes, slept, llmResult, llmOthers>>

NextLLM == Attempt \/ Exhausted \/ TakeOutput

SpecLLM == InitLLM /\ [][NextLLM]_vars

\* every attempt ends and the orchestrator goes on: no step waits forever
SpecLLMFair == SpecLLM /\ WF_vars(NextLLM)

-----------------------------------------------------------------------------
(* SpecParse: parse_llm_extraction_output on bounded model responses.        *)

MaxParseRecords == 2

\* the elements of "entita": two valid ones, a type outside the vocabulary,
\* a missing type, a missing name, a name that is a JSON array, a non-object
ParseEntityInputs ==
    { [nome_entita |-> "EmPULIA", tipo_entita |-> "PiattaformaModulo"],
      [nome_entita |-> "Utente", tipo_entita |-> "RuoloUtente"],
      [nome_entita |-> "Gara", tipo_entita |-> "TipoInventato"],
      [nome_entita |-> "Profilo", tipo_entita |-> Missing],
      [nome_entita |-> Missing, tipo_entita |-> "RuoloUtente"],
      [nome_entita |-> Unhashable, tipo_entita |-> "PiattaformaModulo"],
      NotADict }

\* the elements of "relazioni": a valid one, an unknown predicate, a missing
\* object, a non-object
ParseRelationInputs ==
    { [soggetto |-> "Utente", predicato |-> "richiedeInput", oggetto |-> "EmPULIA"],
      [soggetto |-> "Utente", predicato |-> "usa", oggetto |-> "EmPULIA"],
      [soggetto |-> "Utente", predicato |-> "riguarda", oggetto |-> Missing],
      NotADict }

ParseLists(pool) ==
    UNION { [1..n -> pool] : n \in 0..MaxParseRecords } \cup {NotAList}

ParseResponses ==
    { [kind |-> "garbage", entita |-> <<>>, relazioni |-> <<>>] }
    \cup { [kind |-> "json", entita |-> es, relazioni |-> rs] :
             es \in ParseLists(ParseEntityInputs), rs \in ParseLists(ParseRelationInputs) }

InitParse ==
    /\ llm_response \in ParseResponses
    /\ parseResult = <<>>
    /\ parsePc = "call"
    /\ NormIdle /\ AggIdle /\ ClusterIdle /\ LoadIdle /\ RetrIdle /\ ExtrIdle /\ LlmIdle /\ AsyncIdle /\ RerankIdle

ParseLlmExtractionOutput ==
    /\ parsePc = "call"
    /\ parseResult' = <<parse_llm_extraction_output(llm_response)>>
    /\ parsePc' = "done"
    /\ UNCHANGED <<llm_response, parseOthers>>

NextParse == ParseLlmExtractionOutput

SpecParse == InitParse /\ [][NextParse]_vars

-----------------------------------------------------------------------------
(* SpecAsync: one process_chunk_batch call; every task of the batch runs     *)
(* extract_async on the event loop, the model calls run in executor threads. *)

MaxAsyncChunks == 3

\* the limits an extractor is built with; main_async passes the constant
ConcurrencyLimits == {1, 2, MAX_CONCURRENT_REQUESTS}

\* the k-th chunk of the batch (1-based), with or without text
AsyncChunkAt(k, has_text) ==
    [ chunk_id |-> "chunk_" \o ToString(k),
      source_file |-> "guida.pdf",
      page_number |-> k,
      text |-> IF has_text THEN "Per accedere inserire la password." ELSE "  " ]

AsyncBatches ==
    UNION { { [k \in 1..n |-> AsyncChunkAt(k, has_text[k])] : has_text \in [1..n -> BOOLEAN] }
            : n \in 1..MaxAsyncChunks }

\* the JSON objects the model may answer for a chunk: two named nodes and a
\* relation between them; or a named node, a node without a name and a
\* relation that points at the unnamed node
AsyncResponses(chunk) ==
    LET user == [ id |-> "nodo_1", label |-> "RuoloUtente",
                  properties |-> [name |-> " Utente  " \o chunk.chunk_id,
                                  description |-> Missing] ]
        portal == [ id |-> "nodo_2", label |-> "PiattaformaModulo",
                    properties |-> [name |-> "EmPULIA", description |-> "Il portale."] ]
        unnamed == [ id |-> "nodo_2", label |-> Missing,
                     properties |-> [name |-> Missing, description |-> Missing] ]
        uses == [ type |-> "utilizza", start_node_id |-> "nodo_1",
                  end_node_id |-> "nodo_2", context |-> Missing ]
    IN  { [nodes |-> <<user, portal>>, relationships |-> <<uses>>],
          [nodes |-> <<user, unnamed>>, relationships |-> <<uses>>] }

\* what one attempt of _sync_extract may meet
AsyncAttemptOutcomes(chunk) ==
    { [ok |-> FALSE, json |-> EmptyExtraction] }
    \cup { [ok |-> TRUE, json |-> r] : r \in AsyncResponses(chunk) }

InFlight == { i \in 1..Len(taskPc) : taskPc[i] \in {"calling", "sleeping"} }

InitAsync ==
    /\ chunk_batch \in AsyncBatches
    /\ max_concurrent \in ConcurrencyLimits
    /\ semaphore = max_concurrent
    /\ semWaiters = <<>> /\ tasks = <<>> /\ started = 0
    /\ taskPc = <<>> /\ taskResult = <<>> /\ taskRaised = {}
    /\ batch_entities = <<>> /\ batch_relations = <<>>
    /\ asyncPc = "call"
    /\ NormIdle /\ AggIdle /\ ClusterIdle /\ LoadIdle /\ RetrIdle /\ ExtrIdle /\ LlmIdle /\ ParseIdle /\ RerankIdle

\* process_chunk_batch up to gather: a task for every chunk with text
CreateTasks ==
    /\ asyncPc = "call"
    /\ LET HasText(chunk) == Strip(chunk.text) # ""
           created == SelectSeq(chunk_batch, HasText)
       IN  /\ tasks' = created
           /\ taskPc' = [i \in 1..Len(created) |-> "created"]
           /\ taskResult' = [i \in 1..Len(created) |-> <<>>]
           /\ asyncPc' = IF created = <<>> THEN "returned" ELSE "gathering"
    /\ UNCHANGED <<chunk_batch, max_concurrent, semaphore, semWaiters, started, taskRaised,
                   batch_entities, batch_relations, asyncOthers>>

\* the first step of the next task, in creation order: it enters the
\* semaphore section and hands the call to the executor, or queues
StartTask ==
    /\ asyncPc = "gathering"
    /\ started < Len(tasks)
    /\ LET i == started + 1
       IN  /\ started' = i
           /\ IF ~locked(semaphore, semWaiters, taskPc)
              THEN /\ semaphore' = semaphore - 1
                   /\ taskPc' = [taskPc EXCEPT ![i] = "calling"]
                   /\ UNCHANGED semWaiters
              ELSE /\ semWaiters' = Append(semWaiters, i)
                   /\ taskPc' = [taskPc EXCEPT ![i] = "waiting"]
                   /\ UNCHANGED semaphore
    /\ UNCHANGED <<chunk_batch, max_concurrent, tasks, taskResult, taskRaised,
                   batch_entities, batch_relations, asyncPc, asyncOthers>>

\* the executor comes back for task i: with a result the task goes on to the
\* rate-limit sleep, with an exception it returns the empty result and
\* leaves the semaphore section
ExecutorReturns(i) ==
    /\ asyncPc = "gathering"
    /\ started = Len(tasks)
    /\ taskPc[i] = "calling"
    /\ \E attempt_outcomes \in [1..SYNC_ATTEMPTS -> AsyncAttemptOutcomes(tasks[i])] :
         LET outcome == sync_extract(0, attempt_outcomes)
             left == release(semaphore, semWaiters, [taskPc EXCEPT ![i] = "done"])
         IN  IF outcome.raised
             THEN /\ taskResult' = [taskResult EXCEPT ![i] = <<EmptyExtraction>>]
                  /\ taskRaised' = taskRaised \cup {i}
                  /\ semaphore' = left.value
                  /\ taskPc' = left.pcs
             ELSE /\ taskResult' = [taskResult EXCEPT ![i] = <<outcome.value>>]
                  /\ taskPc' = [taskPc EXCEPT ![i] = "sleeping"]
                  /\ UNCHANGED <<taskRaised, semaphore>>
    /\ UNCHANGED <<chunk_batch, max_concurrent, semWaiters, tasks, started,
                   batch_entities, batch_relations, asyncPc, asyncOthers>>

\* asyncio.sleep(RATE_LIMIT_DELAY) is over: task i returns its result and
\* leaves the semaphore section
SleepEnds(i) ==
    /\ asyncPc = "gathering"
    /\ taskPc[i] = "sleeping"
    /\ LET left == release(semaphore, semWaiters, [taskPc EXCEPT ![i] = "done"])
       IN  /\ semaphore' = left.value
           /\ taskPc' = left.pcs
    /\ UNCHANGED <<chunk_batch, max_concurrent, semWaiters, tasks, started, taskResult,
                   taskRaised, batch_entities, batch_relations, asyncPc, asyncOthers>>

\* a woken task runs again: the rest of Semaphore.acquire, then the call is
\* handed to the executor
Resume(i) ==
    /\ asyncPc = "gathering"
    /\ taskPc[i] = "woken"
    /\ LET NotMe(w) == w # i
           remaining == SelectSeq(semWaiters, NotMe)
           inside == [taskPc EXCEPT ![i] = "calling"]
           woken == IF semaphore > 0 THEN wake_up_next(semaphore, remaining, inside)
                    ELSE [value |-> semaphore, pcs |-> inside]
       IN  /\ semWaiters' = remaining
           /\ semaphore' = woken.value
           /\ taskPc' = woken.pcs
    /\ UNCHANGED <<chunk_batch, max_concurrent, tasks, started, taskResult, taskRaised,
                   batch_entities, batch_relations, asyncPc, asyncOthers>>

\* gather has every result: the rest of process_chunk_batch
ReturnBatch ==
    /\ asyncPc = "gathering"
    /\ \A i \in 1..Len(tasks) : taskPc[i] = "done"
    /\ batch_entities' = AggregateResults(taskResult, tasks, 1).entities
    /\ batch_relations' = AggregateResults(taskResult, tasks, 1).relations
    /\ asyncPc' = "returned"
    /\ UNCHANGED <<chunk_batch, max_concurrent, semaphore, semWaiters, tasks, started,
                   taskPc, taskResult, taskRaised, asyncOthers>>

NextAsync ==
    \/ CreateTasks
    \/ StartTask
    \/ \E i \in 1..Len(tasks) : ExecutorReturns(i)
    \/ \E i \in 1..Len(tasks) : SleepEnds(i)
    \/ \E i \in 1..Len(tasks) : Resume(i)
    \/ ReturnBatch

SpecAsync == InitAsync /\ [][NextAsync]_vars

-----------------------------------------------------------------------------
(* Reranked retrieval: ContextReranker.rerank (utils/context_reranker.py)    *)
(* and the text context of knowledge_retriever_rawData.py.  A chunk is its   *)
(* record of the chunk store; chunk id 0 is an id the store does not hold.   *)

RERANKED_TOP_N == 5

\* the number of chunks the chunk store holds
MaxCandidates == 6

\* _get_chunk_by_id: the stored chunk, or the empty dict (here <<>>)
get_chunk_by_id(chunk_id) ==
    IF chunk_id \in 1..MaxCandidates THEN <<[chunk_id |-> chunk_id]>> ELSE <<>>

\* `[chunk for chunk in [self._get_chunk_by_id(cid) for cid in ids] if chunk]`
RECURSIVE FoundChunks(_)
FoundChunks(ids) ==
    IF Len(ids) = 0 THEN <<>> ELSE get_chunk_by_id(Head(ids)) \o FoundChunks(Tail(ids))

\* the ids of a set in ascending order, and in descending order
RECURSIVE Descending(_)
Descending(S) ==
    IF S = {} THEN <<>>
    ELSE LET greatest == CHOOSE x \in S : \A y \in S : y <= x
         IN  <<greatest>> \o Descending(S \ {greatest})

\* list(zip(scores, chunks))
Zip(scores, chunk_list) ==
    [ i \in 1..(IF Len(scores) < Len(chunk_list) THEN Len(scores) ELSE Len(chunk_list)) |->
        <<scores[i], chunk_list[i]>> ]

\* scored_chunks.sort(key=lambda x: x[0], reverse=True): a stable sort, pairs
\* of equal score keep their order
RECURSIVE InsertByScore(_, _)
InsertByScore(sorted, pair) ==
    IF Len(sorted) = 0 THEN <<pair>>
    ELSE IF Head(sorted)[1] >= pair[1]
         THEN <<Head(sorted)>> \o InsertByScore(Tail(sorted), pair)
         ELSE <<pair>> \o sorted

RECURSIVE SortByScore(_, _)
SortByScore(sorted, pairs) ==
    IF Len(pairs) = 0 THEN sorted
    ELSE SortByScore(InsertByScore(sorted, Head(pairs)), Tail(pairs))

\* variant: a prediction that raises leaves no chunk
PredictErrorGivesNothing(chunk_list) == <<>>

\* `except Exception: return chunks`
PredictErrorResult(chunk_list) == chunk_list

\* whether rerank calls model.predict
CallsPredict(model, chunk_list) == model /\ Len(chunk_list) > 0

\* ContextReranker.rerank
rerank(model, chunk_list, prediction) ==
    IF ~CallsPredict(model, chunk_list) THEN chunk_list
    ELSE IF prediction.raised THEN PredictErrorResult(chunk_list)
    ELSE LET scored_chunks == SortByScore(<<>>, Zip(prediction.scores, chunk_list))
         IN  [i \in 1..Len(scored_chunks) |-> scored_chunks[i][2]]

\* reranked_chunks[:RERANKED_TOP_N]
TopN(chunk_list) ==
    SubSeq(chunk_list, 1, IF Len(chunk_list) < RERANKED_TOP_N THEN Len(chunk_list)
                          ELSE RERANKED_TOP_N)

\* what model.predict may do for n pairs: raise, or give one score per pair
ScoreValues == {0, 1}
NotCalled == [called |-> FALSE, raised |-> FALSE, scores |-> <<>>]
PredictOutcomes(n) ==
    { [called |-> TRUE, raised |-> TRUE, scores |-> <<>>] }
    \cup { [called |-> TRUE, raised |-> FALSE, scores |-> s] : s \in [1..n -> ScoreValues] }

InitRerank ==
    /\ rrSourceIds \in SUBSET (0..MaxCandidates)
    /\ modelLoaded \in BOOLEAN
    /\ candidate_chunks = <<>> /\ predicted = NotCalled
    /\ reranked_chunks = <<>> /\ final_chunks = <<>>
    /\ rerankPc = "start"
    /\ NormIdle /\ AggIdle /\ ClusterIdle /\ LoadIdle /\ RetrIdle /\ ExtrIdle /\ LlmIdle
    /\ ParseIdle /\ AsyncIdle

\* the candidate chunks are looked up, in the order the set of ids is
\* iterated; without source chunk ids the text context stays empty
CollectCandidates ==
    /\ rerankPc = "start"
    /\ IF rrSourceIds = {}
       THEN /\ rerankPc' = "done"
            /\ UNCHANGED candidate_chunks
       ELSE /\ \E ids \in {Ascending(rrSourceIds), Descending(rrSourceIds)} :
                 candidate_chunks' = FoundChunks(ids)
            /\ rerankPc' = "rerank"
    /\ UNCHANGED <<rrSourceIds, modelLoaded, predicted, reranked_chunks, final_chunks,
                   rerankOthers>>

\* self.reranker.rerank(user_question, candidate_chunks)
Rerank ==
    /\ rerankPc = "rerank"
    /\ \E prediction \in (IF CallsPredict(modelLoaded, candidate_chunks)
                          THEN PredictOutcomes(Len(candidate_chunks)) ELSE {NotCalled}) :
          /\ predicted' = prediction
          /\ reranked_chunks' = rerank(modelLoaded, candidate_chunks, prediction)
    /\ rerankPc' = "truncate"
    /\ UNCHANGED <<rrSourceIds, modelLoaded, candidate_chunks, final_chunks, rerankOthers>>

\* the first RERANKED_TOP_N chunks are written to the text context
BuildTextContext ==
    /\ rerankPc = "truncate"
    /\ final_chunks' = TopN(reranked_chunks)
    /\ rerankPc' = "done"
    /\ UNCHANGED <<rrSourceIds, modelLoaded, candidate_chunks, predicted, reranked_chunks,
                   rerankOthers>>

NextRerank == CollectCandidates \/ Rerank \/ BuildTextContext

SpecRerank == InitRerank /\ [][NextRerank]_vars

-----------------------------------------------------------------------------
(* Properties                                                                *)

\* the normalized name of a mention as aggregation states it: trimmed, lowercased
NormName(mention) == Lower(Strip(mention.nome_entita))

\* a mention aggregation keeps: a non-blank name and a non-empty type
ValidMention(mention) == Strip(mention.nome_entita) # "" /\ mention.tipo_entita # ""

RecordsNamed(norm) ==
    { i \in 1..Len(aggregated_entities) : aggregated_entities[i].nome_entita_norm = norm }

\* C1 (as stated): every distinct normalized name among the mentions has exactly
\* one AggregatedEntity, whose conteggio_occorrenze is the number of mentions
\* with that normalized name, and there is no other AggregatedEntity.
C1_OnePerNormalizedName ==
    aggPc = "done" =>
        /\ \A k \in 1..Len(entities) :
             /\ Cardinality(RecordsNamed(NormName(entities[k]))) = 1
             /\ \A i \in RecordsNamed(NormName(entities[k])) :
                  aggregated_entities[i].conteggio_occorrenze =
                    Cardinality({ j \in 1..Len(entities) :
                                    NormName(entities[j]) = NormName(entities[k]) })
        /\ \A i \in 1..Len(aggregated_entities) :
             \E k \in 1..Len(entities) :
                NormName(entities[k]) = aggregated_entities[i].nome_entita_norm

\* C1 (amended): the same, over the mentions that have a non-blank name and a
\* non-empty type; a mention with a blank name or an empty type is skipped and
\* counts for nothing.
C1_OnePerNormalizedNameOfValidMentions ==
    aggPc = "done" =>
        LET valid == { k \in 1..Len(entities) : ValidMention(entities[k]) }
        IN  /\ \A k \in valid :
                 /\ Cardinality(RecordsNamed(NormName(entities[k]))) = 1
                 /\ \A i \in RecordsNamed(NormName(entities[k])) :
                      aggregated_entities[i].conteggio_occorrenze =
                        Cardinality({ j \in valid :
                                        NormName(entities[j]) = NormName(entities[k]) })
            /\ \A i \in 1..Len(aggregated_entities) :
                 \E k \in valid :
                    NormName(entities[k]) = aggregated_entities[i].nome_entita_norm

\* three mentions: two spellings of one normalized name aggregated into one
\* record of count 2, and one skipped mention
C1_Witness ==
    /\ aggPc = "done"
    /\ Len(entities) = 3
    /\ \E k \in 1..3 : ~ValidMention(entities[k])
    /\ Len(aggregated_entities) = 1
    /\ aggregated_entities[1].conteggio_occorrenze = 2
    /\ Cardinality(aggregated_entities[1].tutti_nomi_originali) = 2

\* C3 (as stated): normalize_entity_name(normalize_entity_name(s)) =
\* normalize_entity_name(s) for every input string s.
C3_NormalizeIdempotent ==
    nTwice # NoValue => nTwice = nOnce

\* C8 (as stated): the key aggregation groups a mention under is the shared
\* normalizer's output for its surface name, so two kept mentions share an
\* AggregatedEntity exactly when normalize_entity_name maps them to one string.
C8_AggregationKeyIsNormalizer ==
    aggPc = "done" =>
        /\ \A i \in 1..Len(aggregated_entities) :
             \A name \in aggregated_entities[i].tutti_nomi_originali :
                aggregated_entities[i].nome_entita_norm = normalize_entity_name(name)
        /\ \A k, l \in { m \in 1..Len(entities) : ValidMention(entities[m]) } :
             (\E i \in 1..Len(aggregated_entities) :
                 { Strip(entities[k].nome_entita), Strip(entities[l].nome_entita) }
                    \subseteq aggregated_entities[i].tutti_nomi_originali)
             <=> normalize_entity_name(entities[k].nome_entita)
                    = normalize_entity_name(entities[l].nome_entita)


\* the ids a list of final clusters names, and whether two of them share one
ClusteredIds(clusters) ==
    UNION { Range(clusters[i].membri_ids_originali) : i \in 1..Len(clusters) }

NoSharedId(clusters) ==
    \A i, j \in 1..Len(clusters) :
        i # j => Range(clusters[i].membri_ids_originali)
                   \cap Range(clusters[j].membri_ids_originali) = {}

\* C2 (as stated): after llm_cluster_knowledge the ids named by the final entity
\* clusters are exactly 0..n-1 for the n aggregated entities, no id is named by
\* two clusters, and the same holds for the relation clusters.
C2_ClusteringIsPartition ==
    clusterPc = "done" =>
        /\ ClusteredIds(final_clustered_entities) = 0..(Len(aggregated_entities) - 1)
        /\ NoSharedId(final_clustered_entities)
        /\ ClusteredIds(final_clustered_relations) = 0..(Len(aggregated_relations) - 1)
        /\ NoSharedId(final_clustered_relations)

\* the final clusters that name this id
ClustersOf(clusters, id) ==
    { i \in 1..Len(clusters) : id \in Range(clusters[i].membri_ids_originali) }

IsSingletonIn(clusters, id) ==
    /\ Cardinality(ClustersOf(clusters, id)) = 1
    /\ \A i \in ClustersOf(clusters, id) : clusters[i].membri_ids_originali = <<id>>

\* C7 (as stated): when the model's answer to a batch was empty or unparseable,
\* every entity and every relation of that batch is, in the final output, the
\* only member of exactly one cluster.
C7_FailedBatchYieldsSingletons ==
    clusterPc = "done" =>
        \A b \in 1..Len(batchLog) :
            batchLog[b].answer \in {"empty", "garbage"} =>
                /\ \A id \in batchLog[b].entity_ids :
                      IsSingletonIn(final_clustered_entities, id)
                /\ \A id \in batchLog[b].relation_ids :
                      IsSingletonIn(final_clustered_relations, id)


\* C4 (as stated): when every store call succeeded, the graph has after the
\* second load of a dataset as many nodes and as many edges as after the first.
C4_LoadingIsIdempotent ==
    (storeErrors = 0 /\ Len(loadCounts) >= 2) => loadCounts[2] = loadCounts[1]


\* the key entity matches no node: the analysis names a key entity, and no node
\* name holds one of its search patterns or the first word of its name (the two
\* tests retrieval matches nodes with)
KeyEntityMatchesNoNode ==
    /\ analysis.valid
    /\ Len(analysis.entita_chiave) > 0
    /\ analysis.entita_chiave[1].nome # None
    /\ \A n \in graphNodes :
         /\ ~Contains(n.name, FallbackToken(analysis))
         /\ \A i \in 1..Len(AllPatterns(normalize_entity_list(analysis.entita_chiave))) :
               ~Contains(n.name, AllPatterns(normalize_entity_list(analysis.entita_chiave))[i])

-----------------------------------------------------------------------------
(* Extraction orchestrator.                                                  *)

\* C6: a run that resumes from a checkpoint recording k processed chunks of n
\* visits the chunks k, k+1, ... in order, each once, sends no chunk below k to
\* the model, and has visited exactly n - k chunks when it returns.
C6_ResumeVisitsOnlyRemainingChunks ==
    (variant = "checkpoint" /\ resumedFrom >= 0 /\ extrPc \in {"loop", "done"}) =>
        /\ \A j \in 1..Len(visited) : visited[j] = resumedFrom + j - 1
        /\ \A j \in 1..Len(sent) : sent[j] >= resumedFrom
        /\ extrPc = "done" => Len(visited) = Len(chunks) - resumedFrom

C6_Witness ==
    /\ extrPc = "done" /\ stoppedOnce
    /\ resumedFrom > 0 /\ resumedFrom < Len(chunks)
    /\ Len(visited) = Len(chunks) - resumedFrom
    /\ sent # <<>>

\* the chunk at index i has text and the model's answer to it is a JSON object
Succeeded(i) == Strip(chunks[i + 1].text) # "" /\ answers[i + 1].kind = "json"

\* the chunk at index i has text and the model call gave nothing usable
Failed(i) == Strip(chunks[i + 1].text) # "" /\ answers[i + 1].kind # "json"

RECURSIVE ExpectedOf(_, _, _)
\* the records (field "entities" or "relations") of the chunks from..to-1 that
\* succeeded, in chunk order
ExpectedOf(field, from, to) ==
    IF from >= to THEN <<>>
    ELSE (IF Succeeded(from) THEN ChunkResult(chunks[from + 1], answers[from + 1])[field]
          ELSE <<>>)
         \o ExpectedOf(field, from + 1, to)

IsSuffix(s, t) == Len(s) <= Len(t) /\ SubSeq(t, Len(t) - Len(s) + 1, Len(t)) = s

\* C9: in both orchestrators the loop goes on after a chunk whose model call
\* gave no output or unparseable output: the visited indices are always the
\* contiguous run from the start index, the accumulated lists end with the
\* records of every other visited chunk, and the run returns only after the
\* last chunk.
C9_ChunkFailureDoesNotAbort ==
    extrPc \in {"loop", "done"} =>
        /\ visited = [j \in 1..(chunkIndex - start_index) |-> start_index + j - 1]
        /\ IsSuffix(ExpectedOf("entities", start_index, chunkIndex), all_entities)
        /\ IsSuffix(ExpectedOf("relations", start_index, chunkIndex), all_relations)
        /\ resumedFrom < 0 =>
              /\ all_entities = ExpectedOf("entities", 0, chunkIndex)
              /\ all_relations = ExpectedOf("relations", 0, chunkIndex)
        /\ extrPc = "done" => chunkIndex = Len(chunks)

C9_Witness ==
    /\ extrPc = "done" /\ Len(visited) = Len(chunks)
    /\ \E i, j, k \in 0..(Len(chunks) - 1) :
          /\ i < k /\ j < k
          /\ Failed(i) /\ answers[i + 1].kind = "no_output"
          /\ Failed(j) /\ answers[j + 1].kind = "garbage"
          /\ Succeeded(k)
    /\ all_entities # <<>> /\ all_relations # <<>>

-----------------------------------------------------------------------------
(* Model call with retries.                                                  *)

AllAttemptsFailed == \A j \in 1..Len(outcomes) : outcomes[j] \in {"rate_limited", "error"}

\* at most max_retries attempts; a call whose attempts all failed returns ""
\* and the orchestrator then adds nothing for the chunk
RetryBound ==
    /\ Len(outcomes) <= max_retries
    /\ (llmPc \in {"returned", "taken"} /\ AllAttemptsFailed) =>
          /\ Len(outcomes) = max_retries
          /\ llmResult = ""
    /\ (llmPc = "taken" /\ llmResult = "") =>
          llmTaken = <<[entities |-> <<>>, relations |-> <<>>]>>

\* C10: call_llm_api makes at most max_retries attempts and then returns: the
\* call always ends, with the empty string when every attempt failed, and the
\* orchestrator takes that as no output for the chunk.
C10_CallEndsWithinMaxRetries == []RetryBound /\ <>(llmPc = "taken")

C10_Witness ==
    /\ llmPc = "taken" /\ max_retries >= 2 /\ Len(outcomes) = max_retries
    /\ AllAttemptsFailed
    /\ \E j \in 1..Len(outcomes) : outcomes[j] = "rate_limited"
    /\ outcomes[Len(outcomes)] = "error"
    /\ llmResult = "" /\ llmTaken = <<[entities |-> <<>>, relations |-> <<>>]>>

-----------------------------------------------------------------------------
(* Extraction parser.                                                        *)

\* an element the parser is to keep: an object with the keys and a type, or a
\* predicate, of the vocabulary
InVocabularyEntity(e) ==
    e # NotADict /\ e.nome_entita # Missing /\ e.tipo_entita \in ENTITY_TYPES
InVocabularyRelation(r) ==
    /\ r # NotADict /\ r.soggetto # Missing /\ r.oggetto # Missing
    /\ r.predicato \in RELATION_TYPES

ElementsOf(list) == IF list = NotAList THEN <<>> ELSE list

\* C11: every returned entity has a type of ENTITY_TYPES and every returned
\* relation a predicate of RELATION_TYPES, and the returned lists are the
\* response's lists without the records outside the vocabulary or lacking a
\* required field: the remaining records of the response are kept.
C11_ParserKeepsExactlyTheVocabularyRecords ==
    (parsePc = "done" /\ llm_response.kind = "json") =>
        /\ \A j \in 1..Len(parseResult[1].entities) :
               parseResult[1].entities[j].tipo_entita \in ENTITY_TYPES
        /\ \A j \in 1..Len(parseResult[1].relations) :
               parseResult[1].relations[j].predicato \in RELATION_TYPES
        /\ parseResult[1].entities = SelectSeq(ElementsOf(llm_response.entita), InVocabularyEntity)
        /\ parseResult[1].relations =
               SelectSeq(ElementsOf(llm_response.relazioni), InVocabularyRelation)

-----------------------------------------------------------------------------
(* Aggregation: canonical type.                                              *)

\* the asserted types of the kept mentions with the normalized name, in input order
AssertedTypes(norm) ==
    LET Contributes(mention) == ValidMention(mention) /\ NormName(mention) = norm
        kept == SelectSeq(entities, Contributes)
    IN  [j \in 1..Len(kept) |-> kept[j].tipo_entita]

FirstSeen(seq, x) == CHOOSE i \in 1..Len(seq) : seq[i] = x /\ \A j \in 1..(i - 1) : seq[j] # x

\* t is the most frequent element of seq, and of the most frequent ones the
\* one seen first
MostFrequentFirstSeen(seq, t) ==
    /\ \E i \in 1..Len(seq) : seq[i] = t
    /\ \A j \in 1..Len(seq) :
          seq[j] # t =>
             \/ CountIn(seq, t) > CountIn(seq, seq[j])
             \/ /\ CountIn(seq, t) = CountIn(seq, seq[j])
                /\ FirstSeen(seq, t) < FirstSeen(seq, seq[j])

\* C12: the canonical type of every AggregatedEntity is the most frequent type
\* asserted by its contributing mentions, the first seen in input order on a tie.
C12_CanonicalTypeIsMostFrequentFirstSeen ==
    aggPc = "done" =>
        \A i \in 1..Len(aggregated_entities) :
            MostFrequentFirstSeen(AssertedTypes(aggregated_entities[i].nome_entita_norm),
                                  aggregated_entities[i].tipo_entita_canonico_provvisorio)

\* two mentions that differ in letter case and in type form one record, which
\* has the type of the first
C12_Witness ==
    /\ aggPc = "done" /\ Len(entities) = 2
    /\ entities[1].nome_entita # entities[2].nome_entita
    /\ entities[1].tipo_entita # entities[2].tipo_entita
    /\ ValidMention(entities[1]) /\ ValidMention(entities[2])
    /\ Len(aggregated_entities) = 1
    /\ aggregated_entities[1].tipo_entita_canonico_provvisorio = entities[1].tipo_entita
    /\ Cardinality(aggregated_entities[1].tutti_tipi_rilevati) = 2

-----------------------------------------------------------------------------
(* Clustering: what a cluster carries.                                       *)

\* the aggregated entities a final entity cluster contains
MemberEntities(cluster) ==
    { aggregated_entities[id + 1] :
        id \in Range(cluster.membri_ids_originali) \cap (0..(Len(aggregated_entities) - 1)) }

UnionOfMembers(cluster, field) == UNION { member[field] : member \in MemberEntities(cluster) }

\* C13 (as stated): whatever the model answered, the surface names, types,
\* descriptions, chunk ids, page numbers and section titles of every final
\* entity cluster are exactly the union of those of its member aggregated
\* entities.
C13_ClusterCarriesUnionOfMembers ==
    clusterPc = "done" =>
        \A i \in 1..Len(final_clustered_entities) :
            LET cluster == final_clustered_entities[i]
            IN  /\ cluster.membri_cluster = UnionOfMembers(cluster, "tutti_nomi_originali")
                /\ cluster.tipi_membri_cluster = UnionOfMembers(cluster, "tutti_tipi_rilevati")
                /\ cluster.descrizioni_aggregate =
                      UnionOfMembers(cluster, "descrizioni_aggregate")
                /\ cluster.fonti_aggregate_chunk_id = UnionOfMembers(cluster, "fonti_chunk_id")
                /\ cluster.fonti_aggregate_pagina = UnionOfMembers(cluster, "fonti_pagina")
                /\ cluster.fonti_aggregate_sezione = UnionOfMembers(cluster, "fonti_sezione")

-----------------------------------------------------------------------------
(* Retrieval: graph-store failures.                                          *)

Raised(query) == \E j \in 1..Len(storeCalls) : storeCalls[j] = [query |-> query, ok |-> FALSE]

NothingFound ==
    [header |-> "Nessuna informazione trovata nel Knowledge Graph.", lines |-> {}]

\* C14 (as stated): a graph-store call that raises leaves no rows; after a
\* primary query that raised, the fallback query is run and no error reaches
\* the caller; when the fallback raises too the call returns the nothing-found
\* context with an empty text context.
C14_StoreFailureIsAnEmptyResult ==
    /\ Raised("primary") => primary_results = {}
    /\ (Raised("primary") /\ retrPc \in {"format", "done", "raised"}) =>
          retrPc # "raised" /\ fallbackRuns = 1
    /\ (Raised("fallback") /\ retrPc \in {"format", "done"}) => query_results = {}
    /\ (Raised("fallback") /\ retrPc = "done") =>
          /\ retrieved.graph_context = NothingFound
          /\ retrieved.text_context = EmptyText

\* the same holds of every call whose first key entity has a name
StoreFailureIsAnEmptyResultForNamedEntity ==
    (Len(analysis.entita_chiave) > 0 /\ analysis.entita_chiave[1].nome # None) =>
        C14_StoreFailureIsAnEmptyResult

-----------------------------------------------------------------------------
(* Clustering: subjects and objects of the final relation clusters.          *)

\* the final entity clusters one of whose member names is this string, letter
\* case apart
ClaimantsOf(name) ==
    { i \in 1..Len(final_clustered_entities) :
        \E m \in final_clustered_entities[i].membri_cluster : Lower(m) = Lower(name) }

CanonicalNames ==
    { final_clustered_entities[i].nome_entita_cluster : i \in 1..Len(final_clustered_entities) }

\* the string a final relation cluster was given as subject or object before
\* the mapping: the proposed cluster's for a kept cluster, the aggregated
\* relation's normalized one for a singleton
EndpointBefore(i, proposed_field, norm_field) ==
    LET first == KeptClusters(all_relation_clusters, {}, <<>>)
        rest == UnclaimedIds(0, Len(aggregated_relations), first.processed_ids)
    IN  IF i <= Len(first.kept) THEN first.kept[i][proposed_field]
        ELSE aggregated_relations[rest[i - Len(first.kept)] + 1][norm_field]

\* after is what the mapping makes of before
Remapped(before, after) ==
    IF ClaimantsOf(before) = {} THEN after = before
    ELSE \E i \in ClaimantsOf(before) : after = final_clustered_entities[i].nome_entita_cluster

\* C15: in every final relation cluster a subject or object that is a member
\* name of an entity cluster (letter case apart) has been replaced by that
\* cluster's canonical name, any other is left as it was; so each is a
\* canonical name of an entity cluster or a string no entity cluster claims.
C15_RelationEndpointsAreRemapped ==
    clusterPc = "done" =>
        \A i \in 1..Len(final_clustered_relations) :
            LET cluster == final_clustered_relations[i]
            IN  /\ Remapped(EndpointBefore(i, "soggetto_cluster", "soggetto_norm"),
                            cluster.soggetto_cluster)
                /\ Remapped(EndpointBefore(i, "oggetto_cluster", "oggetto_norm"),
                            cluster.oggetto_cluster)
                /\ \A endpoint \in {cluster.soggetto_cluster, cluster.oggetto_cluster} :
                      endpoint \in CanonicalNames \/ ClaimantsOf(endpoint) = {}

\* a model-proposed relation cluster and a singleton both had their subject
\* replaced, and some object is a string no entity cluster claims
C15_Witness ==
    /\ clusterPc = "done"
    /\ \E i, j \in 1..Len(final_clustered_relations) :
          /\ Len(final_clustered_relations[i].membri_ids_originali) = 2
          /\ final_clustered_relations[i].soggetto_cluster #
                EndpointBefore(i, "soggetto_cluster", "soggetto_norm")
          /\ final_clustered_relations[j].motivazione_clustering # "Stessa relazione"
          /\ final_clustered_relations[j].soggetto_cluster #
                EndpointBefore(j, "soggetto_cluster", "soggetto_norm")
    /\ \E i \in 1..Len(final_clustered_relations) :
          ClaimantsOf(final_clustered_relations[i].oggetto_cluster) = {}

\* C16: in the asynchronous variant the tasks inside the semaphore section of
\* extract_async, the in-flight model calls, never outnumber the limit the
\* extractor was built with, whatever the size of the batch; the permits left
\* and the permits held always add up to the limit.
C16_InFlightCallsWithinLimit ==
    asyncPc # "idle" =>
        /\ Cardinality(InFlight) <= max_concurrent
        /\ semaphore >= 0
        /\ LET woken == { i \in 1..Len(taskPc) : taskPc[i] = "woken" }
           IN  semaphore + Cardinality(InFlight) + Cardinality(woken) = max_concurrent

\* as many calls in flight as the limit allows, and a task of the same batch
\* kept waiting
C16_Witness ==
    /\ asyncPc = "gathering"
    /\ Cardinality(InFlight) = max_concurrent
    /\ \E i \in 1..Len(taskPc) : taskPc[i] = "waiting"
    /\ \E i \in InFlight : taskPc[i] = "sleeping"

\* the named nodes of a task's result
NamedNodes(i) ==
    LET Named(node) == Present(node.properties.name)
    IN  SelectSeq(taskResult[i][1].nodes, Named)

\* the relations of a task's result whose two ends are named nodes
CompleteRelations(i) ==
    LET nodes == taskResult[i][1].nodes
        Complete(rel) == /\ \E j \in 1..Len(nodes) :
                               nodes[j].id = rel.start_node_id /\ Present(nodes[j].properties.name)
                         /\ \E j \in 1..Len(nodes) :
                               nodes[j].id = rel.end_node_id /\ Present(nodes[j].properties.name)
    IN  SelectSeq(taskResult[i][1].relationships, Complete)

\* the records of a returned list that carry the provenance of task i's chunk
TaggedWith(records, i) ==
    LET Own(r) == /\ r.source_chunk_id = tasks[i].chunk_id
                  /\ r.source_page_number = tasks[i].page_number
    IN  SelectSeq(records, Own)

RECURSIVE SumOver(_, _)
SumOver(f, n) == IF n = 0 THEN 0 ELSE f[n] + SumOver(f, n - 1)

\* no task is left behind: while the batch is gathering, either every task
\* is done or some task can take its next step (a waiting task has a task
\* ahead of it that holds a permit and will release it)
NoTaskIsStuck ==
    asyncPc = "gathering" =>
        \/ \A i \in 1..Len(tasks) : taskPc[i] = "done"
        \/ started < Len(tasks)
        \/ \E i \in 1..Len(tasks) : taskPc[i] \in {"calling", "sleeping", "woken"}

\* C17: in the asynchronous variant a task whose model call raised returns the
\* empty result and nothing else changes: no sibling is cancelled or left
\* waiting, and when the batch returns every task is done and the batch holds,
\* for every task that did not raise, exactly that task's named nodes and
\* complete relations, tagged with the id and page of that task's own chunk,
\* and nothing for a task that raised.
C17_TaskFailureStaysInItsTask ==
    /\ NoTaskIsStuck
    /\ \A i \in taskRaised : taskPc[i] = "done" /\ taskResult[i] = <<EmptyExtraction>>
    /\ asyncPc = "returned" =>
         /\ \A i \in 1..Len(tasks) : taskPc[i] = "done" /\ Len(taskResult[i]) = 1
         /\ \A i \in taskRaised :
              TaggedWith(batch_entities, i) = <<>> /\ TaggedWith(batch_relations, i) = <<>>
         /\ \A i \in (1..Len(tasks)) \ taskRaised :
              /\ Len(TaggedWith(batch_entities, i)) = Len(NamedNodes(i))
              /\ \A j \in 1..Len(NamedNodes(i)) :
                   TaggedWith(batch_entities, i)[j].nome_entita
                       = Join(Split(Lower(NamedNodes(i)[j].properties.name)))
              /\ Len(TaggedWith(batch_relations, i)) = Len(CompleteRelations(i))
              /\ \A j \in 1..Len(CompleteRelations(i)) :
                   TaggedWith(batch_relations, i)[j].predicato = CompleteRelations(i)[j].type
         /\ Len(batch_entities)
              = SumOver([i \in 1..Len(tasks) |-> Len(TaggedWith(batch_entities, i))], Len(tasks))
         /\ Len(batch_relations)
              = SumOver([i \in 1..Len(tasks) |-> Len(TaggedWith(batch_relations, i))], Len(tasks))

\* a returned batch in which the first task raised while a slot was contended
\* and a later task's entity came back under its own chunk
C17_Witness ==
    /\ asyncPc = "returned"
    /\ 1 \in taskRaised
    /\ Len(tasks) >= 2 /\ 2 \notin taskRaised
    /\ max_concurrent = 1
    /\ \E j \in 1..Len(batch_entities) :
         /\ batch_entities[j].nome_entita = "utente " \o tasks[2].chunk_id
         /\ batch_entities[j].source_chunk_id = tasks[2].chunk_id
    /\ batch_relations # <<>>

\* cluster j of a list of proposed clusters is a first writer: it shares no id
\* with an earlier cluster that is itself a first writer
RECURSIVE FirstWriter(_, _)
FirstWriter(clusters, j) ==
    \A i \in 1..(j - 1) :
        FirstWriter(clusters, i) =>
            Range(clusters[i].membri_ids) \cap Range(clusters[j].membri_ids) = {}

\* the ids the first writers hold
ClaimedIds(clusters) ==
    UNION { Range(clusters[j].membri_ids) : j \in { k \in 1..Len(clusters) : FirstWriter(clusters, k) } }

\* the members of cluster j that no earlier first writer holds
RemainingMembers(clusters, j) ==
    LET earlier == UNION { Range(clusters[i].membri_ids) :
                             i \in { k \in 1..(j - 1) : FirstWriter(clusters, k) } }
        Free(id) == id \notin earlier
    IN  SelectSeq(clusters[j].membri_ids, Free)

\* a final cluster made of the proposed cluster with these ids and this rationale
FinalOf(finals, ids, motivazione) ==
    \E f \in 1..Len(finals) :
        /\ finals[f].membri_ids_originali = ids
        /\ finals[f].motivazione_clustering = motivazione

\* every first writer is in the result with all its ids
FirstWritersKept(clusters, finals) ==
    \A j \in 1..Len(clusters) :
        FirstWriter(clusters, j) =>
            FinalOf(finals, clusters[j].membri_ids, clusters[j].motivazione)

\* as the claim has it: a later cluster loses the shared ids and stays in the
\* result with the members it has left
LaterClusterKeepsTheRest(clusters, finals) ==
    \A j \in 1..Len(clusters) :
        (~FirstWriter(clusters, j) /\ RemainingMembers(clusters, j) # <<>>) =>
            FinalOf(finals, RemainingMembers(clusters, j), clusters[j].motivazione)

\* as the code has it: a later cluster is left out whole, and the result is
\* the first writers followed by a singleton for every position nobody holds
LaterClusterLeftOut(clusters, finals, n, single) ==
    LET unclaimed == (0..(n - 1)) \ ClaimedIds(clusters)
        winners == { j \in 1..Len(clusters) : FirstWriter(clusters, j) }
    IN  /\ \A f \in 1..Len(finals) :
              \/ \E j \in winners :
                    /\ finals[f].membri_ids_originali = clusters[j].membri_ids
                    /\ finals[f].motivazione_clustering = clusters[j].motivazione
              \/ /\ finals[f].motivazione_clustering = single
                 /\ Len(finals[f].membri_ids_originali) = 1
                 /\ finals[f].membri_ids_originali[1] \in unclaimed
        /\ \A j \in 1..Len(clusters) :
              ~FirstWriter(clusters, j) =>
                 \A m \in Range(clusters[j].membri_ids) \cap unclaimed :
                     FinalOf(finals, <<m>>, single)
        /\ Len(finals) = Cardinality(winners) + Cardinality(unclaimed)

SingleEntityReason == "Entita singola, nessun raggruppamento necessario"
SingleRelationReason == "Relazione singola, nessun raggruppamento necessario"

\* C18 as stated: when two proposed clusters share an id, the first keeps the
\* id and the second stays in the result with its remaining members.
C18_SecondClusterKeepsRemainingMembers ==
    clusterPc = "done" =>
        /\ FirstWritersKept(all_entity_clusters, final_clustered_entities)
        /\ FirstWritersKept(all_relation_clusters, final_clustered_relations)
        /\ LaterClusterKeepsTheRest(all_entity_clusters, final_clustered_entities)
        /\ LaterClusterKeepsTheRest(all_relation_clusters, final_clustered_relations)

\* C18 amended: when two proposed clusters share an id, the first keeps all its
\* ids and the second is left out of the result whole; each member of the
\* second that is a position of the input and that no kept cluster holds gets a
\* singleton cluster of its own, and the call returns.
C18_SecondClusterIsLeftOutWhole ==
    clusterPc = "done" =>
        /\ FirstWritersKept(all_entity_clusters, final_clustered_entities)
        /\ FirstWritersKept(all_relation_clusters, final_clustered_relations)
        /\ LaterClusterLeftOut(all_entity_clusters, final_clustered_entities,
                               Len(aggregated_entities), SingleEntityReason)
        /\ LaterClusterLeftOut(all_relation_clusters, final_clustered_relations,
                               Len(aggregated_relations), SingleRelationReason)

\* one batch, one response with two entity clusters; the second shares an id
\* with the first and has a member left, which comes back as a singleton
C18_Witness ==
    /\ clusterPc = "done"
    /\ Len(batchLog) = 1 /\ batchLog[1].answer = "json"
    /\ Len(all_entity_clusters) = 2
    /\ ~FirstWriter(all_entity_clusters, 2)
    /\ RemainingMembers(all_entity_clusters, 2) # <<>>
    /\ FinalOf(final_clustered_entities, RemainingMembers(all_entity_clusters, 2),
               SingleEntityReason)
    /\ Len(final_clustered_entities) = 2

\* the node MERGE leaves for a cluster record
NodeOfRecord(entity) ==
    [ name |-> entity.nome_entita_cluster,
      type |-> entity.tipo_entita_cluster,
      descriptions |-> entity.descrizioni_aggregate,
      occurrence_count |-> entity.conteggio_occorrenze_totale,
      original_members |-> entity.membri_cluster,
      source_chunk_ids |-> entity.fonti_aggregate_chunk_id ]

\* the last record of a list that has this non-blank name
LatestRecord(ents, name) ==
    LET at == { k \in 1..Len(ents) : ents[k].nome_entita_cluster = name }
    IN  ents[CHOOSE k \in at : \A m \in at : m <= k]

\* an upload_entities call on a graph that was loaded before, whose store call
\* succeeded
RepeatUploadOfEntities ==
    /\ loadPc = "entities" /\ loadPc' = "relations"
    /\ Len(loadCounts) >= 1
    /\ storeErrors' = storeErrors

\* C19: on a repeat load every name of the loaded records has exactly one
\* node, and that node's type, descriptions, occurrence count, member list and
\* provenance are those of the latest loaded record of that name, whatever
\* the node held before; the nodes of other names are left as they were.
C19_RepeatLoadOverwritesNode ==
    [][ RepeatUploadOfEntities =>
          LET names == { loadEntities[k].nome_entita_cluster : k \in 1..Len(loadEntities) }
              loaded == { nm \in names : Strip(nm) # "" }
          IN  /\ \A nm \in loaded :
                    { n \in graphNodes' : n.name = nm }
                        = { NodeOfRecord(LatestRecord(loadEntities, nm)) }
              /\ \A n \in graphNodes' : n.name \notin loaded => n \in graphNodes
              /\ \A n \in graphNodes : n.name \notin loaded => n \in graphNodes'
      ]_vars

\* the second load has rewritten a node the first load made: the graph has as
\* many nodes as after the first load, and the node holds the revised values
C19_Witness ==
    /\ loadPc = "relations" /\ Len(loadCounts) = 1 /\ storeErrors = 0
    /\ loadCounts[1].nodes = Cardinality(graphNodes)
    /\ \E n \in graphNodes :
         /\ n.name = "EmPULIA"
         /\ n.occurrence_count = 5
         /\ n.original_members = {"EmPULIA"}
         /\ n.source_chunk_ids = {"chunk_9"}

\* the names of the nodes of the graph
NodeNames == { n.name : n \in graphNodes }

\* a relation record whose subject and object are names of nodes and whose
\* predicate is not blank
Resolvable(r) ==
    /\ r.soggetto_cluster \in NodeNames
    /\ r.oggetto_cluster \in NodeNames
    /\ Strip(r.predicato_cluster) # ""

\* an upload_relations call whose store call succeeded
UploadOfRelations ==
    /\ loadPc = "relations" /\ loadPc' = "entities"
    /\ storeErrors' = storeErrors

\* C20: upload_relations adds one edge for every record whose subject and
\* object both are names of existing nodes, in the order of the records, and
\* nothing else: a record with an endpoint that matches no node adds no edge
\* and no node and raises nothing, and the records after it are still loaded.
C20_EdgeOnlyBetweenExistingNodes ==
    [][ UploadOfRelations =>
          LET resolved == SelectSeq(loadRelations, Resolvable)
              added == SubSeq(graphEdges', Len(graphEdges) + 1, Len(graphEdges'))
          IN  /\ graphNodes' = graphNodes
              /\ SubSeq(graphEdges', 1, Len(graphEdges)) = graphEdges
              /\ Len(added) = Len(resolved)
              /\ \A k \in 1..Len(added) :
                    /\ added[k].s = resolved[k].soggetto_cluster
                    /\ added[k].o = resolved[k].oggetto_cluster
                    /\ added[k].type = resolved[k].predicato_cluster
      ]_vars

\* a first load of two relation records: the first has an object that is no
\* node and left nothing, the second became the only edge
C20_Witness ==
    /\ loadPc = "entities" /\ Len(loadCounts) = 1 /\ storeErrors = 0
    /\ Len(loadRelations) = 2
    /\ loadRelations[1].soggetto_cluster \in NodeNames
    /\ loadRelations[1].oggetto_cluster \notin NodeNames
    /\ Resolvable(loadRelations[2])
    /\ Len(graphEdges) = 1
    /\ graphEdges[1].s = loadRelations[2].soggetto_cluster
    /\ graphEdges[1].o = loadRelations[2].oggetto_cluster

\* the chunk indexes from..to-1 of the loop whose position (i + 1) is a
\* multiple of the checkpoint interval
IntervalIndexes(from, to) ==
    SelectSeq([k \in 1..(to - from) |-> from + k - 1],
              LAMBDA i : (i + 1) % checkpoint_every = 0)

\* the interval checkpoints written after the chunk indexes idx
IntervalWrites(idx) ==
    [k \in 1..Len(idx) |-> [processed_count |-> idx[k] + 1, completed |-> FALSE]]

FinalWrite ==
    IF extrPc = "done"
    THEN <<[processed_count |-> Len(chunks), completed |-> TRUE]>>
    ELSE <<>>

HasText(i) == Strip(chunks[i + 1].text) # ""

\* C21: during a checkpointed extraction with interval N, a checkpoint with
\* processed_count = i + 1 is written after every chunk index i of the run
\* with (i + 1) divisible by N, whether that chunk was blank, failed or
\* succeeded, and a final checkpoint with processed_count = the number of
\* chunks and completed = TRUE is written at the end of the run.
C21_CheckpointAtEveryInterval ==
    (variant = "checkpoint" /\ extrPc \in {"loop", "done"}) =>
        checkpointWrites = IntervalWrites(IntervalIndexes(start_index, chunkIndex)) \o FinalWrite

\* what the loop does: the blank chunk's continue passes over the checkpoint
\* block, so only the interval positions held by a chunk with text are saved
CheckpointAtIntervalsWithText ==
    (variant = "checkpoint" /\ extrPc \in {"loop", "done"}) =>
        checkpointWrites =
            IntervalWrites(SelectSeq(IntervalIndexes(start_index, chunkIndex), HasText))
                \o FinalWrite

\* a finished run of two chunks with interval 2 whose second chunk is blank:
\* the only save_checkpoint call is the final one
C21_BlankChunkAtInterval ==
    /\ variant = "checkpoint" /\ extrPc = "done" /\ ~stoppedOnce
    /\ Len(chunks) = 2 /\ checkpoint_every = 2 /\ start_index = 0
    /\ HasText(0) /\ ~HasText(1)
    /\ checkpointWrites = <<[processed_count |-> 2, completed |-> TRUE]>>

-----------------------------------------------------------------------------
(* Retrieval failures and the synthesis step (answer_generator.py).          *)

\* validate_context: the context is usable unless both parts are empty or
\* carry one of the default messages
validate_context(retrieved_context) ==
    LET graph_context == retrieved_context.graph_context.header
        text_context == retrieved_context.text_context.header
        graph_empty ==
            \/ graph_context = ""
            \/ Contains(graph_context, "Nessun dato strutturato disponibile")
            \/ Contains(graph_context, "Nessuna informazione trovata")
        text_empty ==
            \/ text_context = ""
            \/ Contains(text_context, "Nessun testo originale disponibile")
            \/ Contains(text_context, "Nessuna informazione trovata")
    IN  ~(graph_empty /\ text_empty)

\* generate_final_answer for a question that is not blank and a context that
\* is given: the not-enough-information answer when the context is not
\* usable, otherwise the answer the model gives to the prompt built from it
generate_final_answer(retrieved_context) ==
    IF ~validate_context(retrieved_context) THEN "not_enough_information"
    ELSE "answer_from_context"

\* the call ended on a failure path: the analysis was invalid, or no query
\* gave a row
FailurePath == ~analysis.valid \/ query_results = {}

\* C22: retrieval never raises to its caller, and every failure path (an
\* empty or invalid question analysis, a key entity with a null name, graph
\* queries that fail) ends in the nothing-found context, which the synthesis
\* step does not take as usable and answers with the not-enough-information
\* answer.
C22_FailureIsNothingFound ==
    /\ retrPc # "raised"
    /\ (retrPc = "done" /\ FailurePath) =>
          /\ retrieved.graph_context = NothingFound
          /\ ~validate_context(retrieved)
          /\ generate_final_answer(retrieved) = "not_enough_information"

\* the same holds of every call with a valid analysis whose first key entity,
\* if there is one, has a name
FailureIsNothingFoundForNamedEntity ==
    (analysis.valid /\ (Len(analysis.entita_chiave) > 0 => analysis.entita_chiave[1].nome # None))
        => C22_FailureIsNothingFound

\* an analysis without "entita_chiave" returned the error context, which the
\* synthesis step takes as usable
C22_InvalidAnalysisIsUsable ==
    /\ retrPc = "done" /\ ~analysis.valid
    /\ retrieved.graph_context.header = "Errore: formato di input non valido"
    /\ validate_context(retrieved)
    /\ generate_final_answer(retrieved) = "answer_from_context"

-----------------------------------------------------------------------------
(* Retrieval: the fallback query.                                            *)

\* C23: whenever the primary query yields no rows, the case that no primary
\* query could be built included, retrieve_knowledge runs the fallback query
\* on the first token of the first key entity before it gives up: no call
\* passes the fallback step without rows and without having run it.
C23_FallbackAlwaysRunsBeforeGivingUp ==
    (analysis.valid /\ retrPc \in {"format", "done", "raised"} /\ primary_results = {}) =>
        /\ retrPc # "raised"
        /\ fallbackRuns = 1
        /\ storeCalls[Len(storeCalls)].query = "fallback"

\* the same holds of every call whose first key entity has a name
FallbackRunsForNamedEntity ==
    (Len(analysis.entita_chiave) > 0 /\ analysis.entita_chiave[1].nome # None) =>
        C23_FallbackAlwaysRunsBeforeGivingUp

\* a call without key entities returned the nothing-found context and made no
\* store call at all
C23_NoKeyEntityNoFallback ==
    /\ retrPc = "done" /\ analysis.valid /\ Len(analysis.entita_chiave) = 0
    /\ primary_results = {} /\ fallbackRuns = 0 /\ storeCalls = <<>>
    /\ retrieved.graph_context = NothingFound

-----------------------------------------------------------------------------
(* Clustering: a bad answer to one batch.                                    *)

\* C24: llm_cluster_knowledge never aborts the run because of the answer to
\* one batch: whatever the model answered to the batches, JSON whose clusters
\* lack the subject, object or name keys included, the function returns
\* final entity and relation clusters and raises nothing.
C24_BadBatchNeverAborts ==
    /\ clusterPc # "raised"
    /\ clusterPc = "done" =>
          final_clustered_entities # NoValue /\ final_clustered_relations # NoValue

\* the same holds when no kept relation cluster lacks its subject or object
BadBatchNeverAbortsWithEndpoints ==
    ~FinalizeRelationsRaises(all_relation_clusters) => C24_BadBatchNeverAborts

\* a run of more than one batch, one of them answered with a relation cluster
\* that has no subject: the run ended in the error, without a result
C24_ClusterWithoutSubjectAborts ==
    /\ clusterPc = "raised" /\ Len(batchLog) > 1
    /\ \E i \in 1..Len(all_relation_clusters) :
          all_relation_clusters[i].soggetto_cluster = Missing
    /\ final_clustered_entities = NoValue /\ final_clustered_relations = NoValue

-----------------------------------------------------------------------------
(* Reranking is an ordering and truncation step.                             *)

\* every chunk occurs in t as often as in s
IsPermutation(s, t) ==
    /\ Len(s) = Len(t)
    /\ \A x \in Range(s) \cup Range(t) : CountIn(s, x) = CountIn(t, x)

\* C25: ContextReranker.rerank returns a permutation of its input chunks, the
\* unchanged input when the model is not loaded or the scoring raises, and
\* the chunks of the text context are the first RERANKED_TOP_N chunks of that
\* permutation: every chunk kept is one of the candidates.
C25_RerankIsOrderingAndTruncation ==
    /\ rerankPc \in {"truncate", "done"} =>
          /\ IsPermutation(candidate_chunks, reranked_chunks)
          /\ (~modelLoaded \/ predicted.raised) => reranked_chunks = candidate_chunks
    /\ (rerankPc = "done" /\ rrSourceIds # {}) =>
          /\ final_chunks = TopN(reranked_chunks)
          /\ Len(final_chunks) <= RERANKED_TOP_N
          /\ Range(final_chunks) \subseteq Range(candidate_chunks)

\* six candidates were scored, the order changed, and the last chunk of the
\* new order was left out of the text context
C25_Witness ==
    /\ rerankPc = "done" /\ Len(candidate_chunks) = 6
    /\ predicted.called /\ ~predicted.raised
    /\ reranked_chunks # candidate_chunks
    /\ Len(final_chunks) = RERANKED_TOP_N
    /\ reranked_chunks[6] \notin Range(final_chunks)

-----------------------------------------------------------------------------
(* Retrieval: the primary query by intent.                                   *)

\* a primary query was built and run for the analysis
PrimaryQueryBuilt ==
    /\ analysis.valid /\ retrPc \in {"primary_done", "format", "done", "raised"}
    /\ Len(generate_cypher_from_analysis(analysis)) > 0

PrimaryShape == QueryShape(analysis.intento, get_available_relationships(graphEdges))

\* C26: the primary query is selected by intent: a shortest path between the
\* two named key entities for find_relationship, paths over the procedural
\* edge types up to a bounded depth for find_procedure, a bounded expansion
\* to the neighbours for every other intent.
C26_PrimaryQueryByIntent ==
    PrimaryQueryBuilt =>
        PrimaryShape = (IF analysis.intento = "find_relationship" THEN "shortest_path"
                        ELSE IF analysis.intento = "find_procedure"
                             THEN "procedural_paths_to_depth_2"
                             ELSE "neighborhood")

\* what the code builds: the expansion to the neighbours whatever the intent,
\* in every graph the loader wrote
PrimaryQueryIsNeighborhood ==
    PrimaryQueryBuilt => PrimaryShape = "neighborhood"

\* a find_relationship question over a graph with an edge was answered from
\* the neighbours of the matched node
C26_RelationshipIntentExpandsNeighbors ==
    /\ retrPc = "done" /\ PrimaryQueryBuilt
    /\ analysis.intento = "find_relationship" /\ Len(graphEdges) > 0
    /\ PrimaryShape = "neighborhood"
    /\ primary_results # {}

-----------------------------------------------------------------------------
(* Loader: provenance of the edges.                                          *)

\* the edges one upload_relations call added, and the records they came from
AddedEdges == SubSeq(graphEdges', Len(graphEdges) + 1, Len(graphEdges'))
ResolvedRelations == SelectSeq(loadRelations, Resolvable)

\* C27: every edge upload_relations creates carries the chunk provenance of
\* the relation cluster it was created from: its source_chunk_ids are the
\* cluster's fonti_aggregate_chunk_id.
C27_EdgeCarriesClusterChunkIds ==
    [][ UploadOfRelations =>
          /\ Len(AddedEdges) = Len(ResolvedRelations)
          /\ \A k \in 1..Len(AddedEdges) :
                AddedEdges[k].source_chunk_ids = ResolvedRelations[k].fonti_aggregate_chunk_id
      ]_vars

\* what the loader does: it reads the key "fonti_chunk_id", which no relation
\* cluster has, and every edge gets the empty list
EdgeHasNoChunkIds ==
    [][ UploadOfRelations =>
          /\ Len(AddedEdges) = Len(ResolvedRelations)
          /\ \A k \in 1..Len(AddedEdges) : AddedEdges[k].source_chunk_ids = {}
      ]_vars

\* a loaded edge without chunk ids whose relation cluster has one
C27_EdgeWithoutProvenance ==
    /\ loadPc = "entities" /\ Len(loadCounts) = 1 /\ Len(graphEdges) = 1
    /\ Len(loadRelations) = 1 /\ Resolvable(loadRelations[1])
    /\ loadRelations[1].fonti_aggregate_chunk_id = {"chunk_1"}
    /\ graphEdges[1].source_chunk_ids = {}

-----------------------------------------------------------------------------
(* Clustering: predicates of the final relation clusters.                    *)

\* C28: every final relation cluster llm_cluster_knowledge returns, whether
\* the model proposed it, the fallback for an empty or unparseable answer
\* produced it, or it is the singleton of an unclaimed relation, has a
\* predicate of the RELATION_TYPES vocabulary.
C28_FinalPredicateInVocabulary ==
    clusterPc = "done" =>
        \A i \in 1..Len(final_clustered_relations) :
            final_clustered_relations[i].predicato_cluster \in RELATION_TYPES

\* what holds: a cluster the model proposed has a predicate of the vocabulary,
\* a fallback cluster or singleton has the lowercased predicate of its relation
FinalPredicateValidatedOrLowercased ==
    clusterPc = "done" =>
        \A i \in 1..Len(final_clustered_relations) :
            LET cluster == final_clustered_relations[i]
            IN  IF cluster.motivazione_clustering = "Stessa relazione"
                THEN cluster.predicato_cluster \in RELATION_TYPES
                ELSE /\ Len(cluster.membri_ids_originali) = 1
                     /\ cluster.predicato_cluster =
                          aggregated_relations[cluster.membri_ids_originali[1] + 1].predicato_norm

\* a batch without an answer left a fallback cluster whose predicate is the
\* lowercased "richiedeinput"
C28_FallbackPredicateIsLowercased ==
    /\ clusterPc = "done"
    /\ \E i \in 1..Len(final_clustered_relations) :
          /\ final_clustered_relations[i].motivazione_clustering =
                "Fallback: nessun clustering LLM"
          /\ final_clustered_relations[i].predicato_cluster = "richiedeinput"
    /\ "richiedeinput" \notin RELATION_TYPES

-----------------------------------------------------------------------------
(* Clustering and loading: one node per entity cluster.                      *)

\* the node upload_entities writes for an entity cluster
NodeOfCluster(cluster) ==
    [ name |-> cluster.nome_entita_cluster,
      type |-> cluster.tipo_entita_cluster,
      descriptions |-> cluster.descrizioni_aggregate,
      occurrence_count |-> cluster.conteggio_occorrenze_totale,
      original_members |-> cluster.membri_cluster,
      source_chunk_ids |-> cluster.fonti_aggregate_chunk_id ]

\* the nodes of the graph after the final entity clusters are loaded into an
\* empty store
LoadedFinalNodes == MergeNodes({}, ValidEntities(final_clustered_entities))

NamedFinalClusters ==
    { i \in 1..Len(final_clustered_entities) :
        Strip(final_clustered_entities[i].nome_entita_cluster) # "" }

\* C29: after clustering and loading, every final entity cluster with a
\* canonical name that is not blank has its own node, with the cluster's
\* values: no two distinct final clusters have the same canonical name and
\* end up in one node that keeps the data of the last.
C29_OneNodePerEntityCluster ==
    clusterPc = "done" =>
        /\ \A i \in NamedFinalClusters :
              NodeOfCluster(final_clustered_entities[i]) \in LoadedFinalNodes
        /\ \A i, j \in NamedFinalClusters :
              i # j => final_clustered_entities[i].nome_entita_cluster
                         # final_clustered_entities[j].nome_entita_cluster
        /\ Cardinality(LoadedFinalNodes) = Cardinality(NamedFinalClusters)

\* the same holds whenever the model gave no two clusters the same name
OneNodePerDistinctName ==
    (\A i \in 1..Len(all_entity_clusters) :
        all_entity_clusters[i].nome_cluster # "Portale") => C29_OneNodePerEntityCluster

\* two batches each named their entity "Portale": two final clusters, one
\* node, which has the members of the second cluster
C29_TwoClustersOneNode ==
    /\ clusterPc = "done" /\ Len(final_clustered_entities) = 2
    /\ final_clustered_entities[1].nome_entita_cluster = "Portale"
    /\ final_clustered_entities[2].nome_entita_cluster = "Portale"
    /\ final_clustered_entities[1].membri_cluster # final_clustered_entities[2].membri_cluster
    /\ LoadedFinalNodes = { NodeOfCluster(final_clustered_entities[2]) }

-----------------------------------------------------------------------------
(* Extraction: a resumed run returns what an uninterrupted run returns.      *)

\* what a run over all the chunks collects, in chunk order
UninterruptedResult(field) == ExpectedOf(field, 0, Len(chunks))

\* C30: for a fixed chunk list and fixed model answers per chunk, a
\* checkpointed run, whether it ran through or was stopped at any point after
\* a checkpoint write and resumed from that checkpoint, returns the same
\* entity and relation lists: the records of every chunk once, in chunk
\* order, none twice and none missing.
C30_ResumedRunReturnsTheSameLists ==
    (variant = "checkpoint" /\ extrPc = "done") =>
        /\ all_entities = UninterruptedResult("entities")
        /\ all_relations = UninterruptedResult("relations")

\* a run of three chunks was stopped after the checkpoint of its first chunk
\* and resumed from it; chunks before and after that point gave records
C30_Witness ==
    /\ variant = "checkpoint" /\ extrPc = "done" /\ stoppedOnce
    /\ Len(chunks) = 3 /\ resumedFrom = 1
    /\ Len(checkpoint_file) > 0
    /\ Succeeded(0) /\ Succeeded(2)
    /\ Len(all_entities) >= 2
    /\ all_entities = UninterruptedResult("entities")

=============================================================================
